---- MODULE Spec2Model ----
(***************************************************************************)
(* MRP allocation engine of database/mrp_service.py                        *)
(* (MRPService.calculate_mrp_suggestions and its readers).                 *)
(*                                                                         *)
(* Quantities the engine divides (component pools, producible quantities)  *)
(* are exact rationals <<numerator, denominator>>; finished-good pools and *)
(* ordered quantities stay integers, as the code only adds, subtracts and  *)
(* compares them.  Padded part numbers occur in the raw-material rows,     *)
(* whose keys the code strips in one place and not in another.             *)
(***************************************************************************)
EXTENDS Integers, Sequences, FiniteSets, TLC

(***************************************************************************)
(* Bounds of the model.                                                    *)
(***************************************************************************)
MaxLines == 2
MaxRuns == 2

(***************************************************************************)
(* Python dict helpers.                                                    *)
(***************************************************************************)
\* d.get(k, default)
Get(d, k, default) == IF k \in DOMAIN d THEN d[k] ELSE default

\* d[k] = v  (adds the key when it is absent)
Put(d, k, v) == [x \in (DOMAIN d) \cup {k} |-> IF x = k THEN v ELSE d[x]]

EmptyDict == [x \in {} |-> 0]

(***************************************************************************)
(* Exact arithmetic on <<n, d>>, d > 0, in lowest terms.  <<1, 0>> is      *)
(* float('inf').                                                           *)
(***************************************************************************)
Abs(n) == IF n < 0 THEN -n ELSE n

RECURSIVE GCD(_, _)
GCD(a, b) == IF b = 0 THEN a ELSE GCD(b, a % b)

Norm(n, d) == LET g == GCD(Abs(n), d) IN <<n \div g, d \div g>>

R(n) == <<n, 1>>

Inf == <<1, 0>>

IsInf(a) == a[2] = 0

RAdd(a, b) == Norm(a[1] * b[2] + b[1] * a[2], a[2] * b[2])

RSub(a, b) == Norm(a[1] * b[2] - b[1] * a[2], a[2] * b[2])

RMul(a, b) == Norm(a[1] * b[1], a[2] * b[2])

\* a / b for b > 0
RDiv(a, b) == Norm(a[1] * b[2], a[2] * b[1])

RLt(a, b) == IF IsInf(a) THEN FALSE
             ELSE IF IsInf(b) THEN TRUE
             ELSE a[1] * b[2] < b[1] * a[2]

RLe(a, b) == ~RLt(b, a)

\* Python's min(a, b): b only when b < a
RMin(a, b) == IF RLt(b, a) THEN b ELSE a

RMax(a, b) == IF RLt(a, b) THEN b ELSE a

IMin(a, b) == IF b < a THEN b ELSE a

(***************************************************************************)
(* Due dates.  A 'Due to Ship' value is [kind, m, d, y]: kind "absent"     *)
(* (no key / None), "empty" (''), "text" (a string that is no m/d/Y date), *)
(* or "mdy" (the string 'm/d/y', whose fields strptime still validates).   *)
(* A date object is modelled by the number y*10000 + m*100 + d, which      *)
(* orders as dates do.                                                     *)
(***************************************************************************)
NoDue == [kind |-> "absent", m |-> 0, d |-> 0, y |-> 0]

MDY(m, d, y) == [kind |-> "mdy", m |-> m, d |-> d, y |-> y]

IsLeap(y) == (y % 4 = 0 /\ y % 100 # 0) \/ y % 400 = 0

DaysInMonth(m, y) == IF m = 2 THEN (IF IsLeap(y) THEN 29 ELSE 28)
                     ELSE IF m \in {4, 6, 9, 11} THEN 30 ELSE 31

\* datetime.strptime(s, '%m/%d/%Y') succeeds
StrptimeOk(s) == /\ s.kind = "mdy"
                 /\ s.m \in 1..12
                 /\ s.y \in 1..9999
                 /\ s.d \in 1..DaysInMonth(s.m, s.y)

DateOf(s) == s.y * 10000 + s.m * 100 + s.d

\* datetime.max.date()
max_date == 99991231

get_sort_date(so) ==
    LET due_date_str == so.Due
    IN  IF due_date_str.kind \in {"absent", "empty"} THEN max_date
        ELSE IF StrptimeOk(due_date_str) THEN DateOf(due_date_str)
        ELSE max_date

(***************************************************************************)
(* list.sort(key=...): stable, ascending.                                  *)
(***************************************************************************)
RECURSIVE InsertByKey(_, _, _)
InsertByKey(x, kx, s) ==
    \* s is a sequence of <<key, item>>, sorted; x goes after every key <= kx
    IF s = <<>> THEN << <<kx, x>> >>
    ELSE IF Head(s)[1] <= kx THEN << Head(s) >> \o InsertByKey(x, kx, Tail(s))
    ELSE << <<kx, x>> >> \o s

RECURSIVE SortPairs(_)
SortPairs(s) ==
    \* s is a sequence of <<key, item>>
    IF s = <<>> THEN <<>>
    ELSE LET n == Len(s)
         IN  InsertByKey(s[n][2], s[n][1], SortPairs(SubSeq(s, 1, n - 1)))

\* Variant: an unstable sort, equal keys come out in reverse input order.
StableSort_unstable(items, keys) ==
    LET n == Len(items)
        p == SortPairs([i \in 1..n |-> <<keys[n + 1 - i], items[n + 1 - i]>>])
    IN  [i \in 1..n |-> p[i][2]]

StableSort(items, keys) ==
    LET p == SortPairs([i \in 1..Len(items) |-> <<keys[i], items[i]>>])
    IN  [i \in 1..Len(items) |-> p[i][2]]

(***************************************************************************)
(* The input universe.                                                     *)
(***************************************************************************)
FGParts == {"P1", "P2"}

CompParts == {"A3", "C1", "W2"}

CustomerNames == {"Acme", "Bolt"}

\* The strings of the universe that the code compares, in ascending order.
StringOrder == <<"A3", "Acme", "Bolt", "C1", "N/A", "P1", "P2", "W2">>

StrRank(x) == CHOOSE k \in 1..Len(StringOrder) : StringOrder[k] = x

\* The first character of a part number.
Initial(part) == CASE part = "A3" -> "A"
                   [] part = "C1" -> "C"
                   [] part \in {"P1", "P2"} -> "P"
                   [] part = "W2" -> "W"

\* s.strip() over the part numbers of the universe: "C1  " is C1 as a
\* fixed-width column delivers it.
Strip(s) == IF s = "C1  " THEN "C1" ELSE s

SOIds == {1, 2}

\* str(x) of an SO number
Str(x) == <<"str", x>>

Line(so, part, qty, due) ==
    [SO |-> so, Part |-> part, OrdQty |-> qty, Due |-> due]

FGRow(part, approved, pending_qc) ==
    [PartNumber |-> part, on_hand_approved |-> approved,
     on_hand_pending_qc |-> pending_qc, TotalOnHand |-> approved + pending_qc]

RawRow(part, approved, pending_qc) ==
    [PartNumber |-> part, on_hand_approved |-> approved,
     on_hand_pending_qc |-> pending_qc]

BomRow(parent, part, quantity, scrap) ==
    [Parent |-> parent, Part |-> part, Quantity |-> quantity, Scrap |-> scrap,
     Description |-> <<"desc", part>>]

PoRow(part, qty) == [Part |-> part, OpenPOQuantity |-> qty]

JobRow(so, jobnum, qty, done) ==
    [so_number |-> so, jo_jobnum |-> jobnum, job_quantity |-> qty,
     completed_quantity |-> done]

CapRow(line, cap) == [line_id |-> line, capacity_per_shift |-> cap]

\* a line that names its customer
CustLine(so, part, qty, due, customer) ==
    [SO |-> so, Part |-> part, OrdQty |-> qty, Due |-> due, CustomerName |-> customer]

SeqsUpTo(S, n) == UNION {[1..k -> S] : k \in 0..n}

(***************************************************************************)
(* State.  erp and capacity_db are the collaborators' frozen snapshots;    *)
(* the other variables are the locals of calculate_mrp_suggestions.        *)
(***************************************************************************)
VARIABLES
    erp,                      \* self.erp: what each ERP query returns
    capacity_db,              \* capacity_db.get_all()
    unavailable,              \* the collaborator calls that raise instead of returning
    entry,                    \* the method of the service that was called
    pc,                       \* "idle", "loop" (line 113), "done" (line 299 returned),
                              \* "raised" (an exception left the method)
    run,                      \* number of the current invocation
    next_line,                \* index in sales_orders of the next line of the for loop
    supplied,                 \* the list get_open_order_schedule returned, as returned
    sales_orders,             \* that list object, as the run sorts and annotates it
    jobs_by_so,
    fg_inventory_map,
    boms_by_parent,
    pos_by_part,
    component_inventory,
    capacities,
    live_fg_approved,
    live_fg_qc,
    live_component_inventory,
    allocation_log,
    mrp_results,
    prev_results,             \* what the previous invocation returned
    shortages,                \* <<v>> once get_consolidated_shortages returned v
    summary,                  \* <<v>> once get_customer_summary returned v
    concurrent                \* the locals of a second invocation running at the same time

collaborators == <<erp, capacity_db, unavailable>>

vars == <<erp, capacity_db, unavailable, entry, shortages, summary, pc, run, next_line, supplied, sales_orders, jobs_by_so,
          fg_inventory_map, boms_by_parent, pos_by_part, component_inventory,
          capacities, live_fg_approved, live_fg_qc, live_component_inventory,
          allocation_log, mrp_results, prev_results, concurrent>>

\* No second invocation is running.
NoInvocation ==
    [pc |-> "idle", fresh |-> TRUE, next_line |-> 1, sales_orders |-> <<>>,
     live_fg_approved |-> EmptyDict, live_fg_qc |-> EmptyDict,
     live_component_inventory |-> EmptyDict, allocation_log |-> EmptyDict,
     mrp_results |-> <<>>]

snapshot_maps == <<jobs_by_so, fg_inventory_map, boms_by_parent, pos_by_part,
                   component_inventory, capacities>>

InitWith(lines, fgs, raws, boms, pos, jobsets, caps, failures) ==
    /\ \E so \in SeqsUpTo(lines, MaxLines), fg \in fgs, raw \in raws,
          bom \in boms, po \in pos, jobs \in jobsets :
          erp = [open_order_schedule |-> so,
                 on_hand_inventory |-> fg,
                 raw_material_inventory |-> raw,
                 bom_data |-> bom,
                 purchase_order_data |-> po,
                 open_production_jobs |-> jobs]
    /\ capacity_db \in caps
    /\ unavailable \in failures
    /\ entry = "none"
    /\ shortages = <<>>
    /\ summary = <<>>
    /\ pc = "idle"
    /\ run = 0
    /\ next_line = 1
    /\ supplied = <<>>
    /\ sales_orders = <<>>
    /\ jobs_by_so = EmptyDict
    /\ fg_inventory_map = EmptyDict
    /\ boms_by_parent = EmptyDict
    /\ pos_by_part = EmptyDict
    /\ component_inventory = EmptyDict
    /\ capacities = <<>>
    /\ live_fg_approved = EmptyDict
    /\ live_fg_qc = EmptyDict
    /\ live_component_inventory = EmptyDict
    /\ allocation_log = EmptyDict
    /\ mrp_results = <<>>
    /\ prev_results = <<>>
    /\ concurrent = NoInvocation

(***************************************************************************)
(* Lines 18-34 and 40-89: fetch and index the snapshots.                   *)
(***************************************************************************)
RECURSIVE get_component_inventory(_)
get_component_inventory(rows) ==
    IF rows = <<>> THEN EmptyDict
    ELSE LET n == Len(rows)
             row == rows[n]
         IN  Put(get_component_inventory(SubSeq(rows, 1, n - 1)), row.PartNumber,
                 [approved |-> row.on_hand_approved,
                  pending_qc |-> row.on_hand_pending_qc])

\* The keys of the dict get_component_inventory returned, in insertion order.
RECURSIVE InventoryKeys(_)
InventoryKeys(rows) ==
    IF rows = <<>> THEN <<>>
    ELSE LET n == Len(rows)
             keys == InventoryKeys(SubSeq(rows, 1, n - 1))
         IN  IF \E k \in 1..Len(keys) : keys[k] = rows[n].PartNumber
             THEN keys
             ELSE Append(keys, rows[n].PartNumber)

\* Lines 104-107: {part.strip(): data.get('approved', 0) for part, data in ...}
RECURSIVE SeedLiveComponentInventory(_, _)
SeedLiveComponentInventory(keys, inventory) ==
    IF keys = <<>> THEN EmptyDict
    ELSE LET n == Len(keys)
         IN  Put(SeedLiveComponentInventory(SubSeq(keys, 1, n - 1), inventory),
                 Strip(keys[n]), R(inventory[keys[n]].approved))

RECURSIVE BuildJobsBySo(_)
BuildJobsBySo(rows) ==
    IF rows = <<>> THEN EmptyDict
    ELSE LET n == Len(rows)
             job == rows[n]
             d == BuildJobsBySo(SubSeq(rows, 1, n - 1))
             so_num == Str(job.so_number)
         IN  Put(d, so_num,
                 Append(Get(d, so_num, <<>>),
                        [jo_jobnum |-> job.jo_jobnum,
                         job_quantity |-> job.job_quantity,
                         completed_quantity |-> job.completed_quantity]))

RECURSIVE BuildFgInventoryMap(_)
BuildFgInventoryMap(rows) ==
    IF rows = <<>> THEN EmptyDict
    ELSE LET n == Len(rows)
             item == rows[n]
         IN  Put(BuildFgInventoryMap(SubSeq(rows, 1, n - 1)), item.PartNumber,
                 [approved |-> item.on_hand_approved,
                  pending_qc |-> item.on_hand_pending_qc,
                  total |-> item.TotalOnHand])

RECURSIVE BuildBomsByParent(_)
BuildBomsByParent(rows) ==
    IF rows = <<>> THEN EmptyDict
    ELSE LET n == Len(rows)
             item == rows[n]
             d == BuildBomsByParent(SubSeq(rows, 1, n - 1))
         IN  Put(d, item.Parent, Append(Get(d, item.Parent, <<>>), item))

RECURSIVE BuildPosByPart(_)
BuildPosByPart(rows) ==
    IF rows = <<>> THEN EmptyDict
    ELSE LET n == Len(rows)
             po == rows[n]
             d == BuildPosByPart(SubSeq(rows, 1, n - 1))
         IN  IF po.OpenPOQuantity > 0
             THEN Put(d, po.Part, Get(d, po.Part, 0) + po.OpenPOQuantity)
             ELSE d

\* {c['line_id']: c['capacity_per_shift'] ...}.values(), in insertion order
BuildCapacities(rows) == [k \in 1..Len(rows) |-> rows[k].capacity_per_shift]

SortSalesOrders(orders) ==
    StableSort(orders, [k \in 1..Len(orders) |-> get_sort_date(orders[k])])

\* Lines 40-109 on the list `fetched` that get_open_order_schedule returned.
Start(fetched) ==
    /\ run' = run + 1
    /\ pc' = "loop"
    /\ next_line' = 1
    /\ component_inventory' = get_component_inventory(erp.raw_material_inventory)
    /\ capacities' = BuildCapacities(capacity_db)
    /\ jobs_by_so' = BuildJobsBySo(erp.open_production_jobs)
    /\ fg_inventory_map' = BuildFgInventoryMap(erp.on_hand_inventory)
    /\ boms_by_parent' = BuildBomsByParent(erp.bom_data)
    /\ pos_by_part' = BuildPosByPart(erp.purchase_order_data)
    /\ live_fg_approved' =
           [p \in DOMAIN fg_inventory_map' |-> fg_inventory_map'[p].approved]
    /\ live_fg_qc' =
           [p \in DOMAIN fg_inventory_map' |-> fg_inventory_map'[p].pending_qc]
    /\ supplied' = fetched
    /\ sales_orders' = SortSalesOrders(fetched)
    /\ live_component_inventory' =
           SeedLiveComponentInventory(InventoryKeys(erp.raw_material_inventory),
                                      component_inventory')
    /\ allocation_log' = EmptyDict
    /\ mrp_results' = <<>>
    /\ prev_results' = mrp_results
    /\ UNCHANGED <<collaborators, concurrent>>

(***************************************************************************)
(* Number formatting: f"{x:,.0f}" and f"{x:,.2f}" round to the nearest,    *)
(* ties to even; the formatted text is modelled by the rounded number.     *)
(***************************************************************************)
Fmt0(x) ==
    LET q == x[1] \div x[2]
        rem == x[1] - q * x[2]
    IN  IF 2 * rem < x[2] THEN q
        ELSE IF 2 * rem > x[2] THEN q + 1
        ELSE IF q % 2 = 0 THEN q ELSE q + 1

Fmt2(x) == Norm(Fmt0(RMul(x, R(100))), 100)

(***************************************************************************)
(* Lines 113-295: the body of the for loop, for one sales order line.      *)
(***************************************************************************)
\* Lines 126-135
bottleneck_text_for_job(jobs) ==
    IF Len(jobs) = 1
    THEN <<"Job: ", jobs[1].jo_jobnum, "(", Fmt0(R(jobs[1].completed_quantity)),
           "/", Fmt0(R(jobs[1].job_quantity)), ")">>
    ELSE <<"Jobs: ", [k \in 1..Len(jobs) |-> jobs[k].jo_jobnum]>>

\* Variant: the stock is rationed among the lines of the part still to come.
fulfilled_from_approved_rationed(ord_qty_curr_level, live_approved, part_number) ==
    LET waiting == Cardinality({i \in next_line..Len(sales_orders) :
                                   sales_orders[i].Part = part_number})
    IN  IMin(ord_qty_curr_level,
             Get(live_approved, part_number, 0) \div (IF waiting > 1 THEN waiting ELSE 1))

\* Variant: ships whatever is in stock, the ordered quantity ignored.
fulfilled_from_approved_all_stock(ord_qty_curr_level, live_approved, part_number) ==
    Get(live_approved, part_number, 0)

\* Lines 139-140
fulfilled_from_approved(ord_qty_curr_level, live_approved, part_number) ==
    IMin(ord_qty_curr_level, Get(live_approved, part_number, 0))

\* Variant: any pending-QC stock counts as cover.
covered_by_pending_qc_any(needed, available_qc) == available_qc > 0

\* Variant: pending-QC stock is never taken as cover.
covered_by_pending_qc_never(needed, available_qc) == FALSE

\* Line 159
covered_by_pending_qc(needed, available_qc) == needed <= available_qc

\* Variant: the pool is never written.
Deplete_forgotten(d, k, amount) == d

\* Lines 142-143 and 160-161: d[k] -= amount, only when k is a key of d
Deplete(d, k, amount) ==
    IF k \in DOMAIN d THEN [d EXCEPT ![k] = @ - amount] ELSE d

\* Lines 188 and 220
qty_per_unit(component) ==
    RMul(R(component.Quantity), RAdd(R(1), RDiv(R(component.Scrap), R(100))))

\* Lines 189 and 221: the BOM lines the loops do not skip
RECURSIVE UsedLines(_)
UsedLines(bom_components) ==
    IF bom_components = <<>> THEN <<>>
    ELSE LET rest == UsedLines(Tail(bom_components))
         IN  IF RLe(qty_per_unit(Head(bom_components)), R(0)) THEN rest
             ELSE <<Head(bom_components)>> \o rest

\* Variant: pending-QC stock of the component is not counted.
max_build_for_comp_approved_only(component, live_component, static_component) ==
    RDiv(Get(live_component, component.Part, R(0)), qty_per_unit(component))

\* Variant: the available quantity is not divided by the quantity per unit.
max_build_for_comp_undivided(component, live_component, static_component) ==
    RAdd(Get(live_component, component.Part, R(0)),
         R(Get(static_component, component.Part,
               [approved |-> 0, pending_qc |-> 0]).pending_qc))

\* Lines 191-195
max_build_for_comp(component, live_component, static_component) ==
    LET comp_part_num == component.Part
        initial_inv == Get(static_component, comp_part_num,
                           [approved |-> 0, pending_qc |-> 0])
        inventory_before_this_so == Get(live_component, comp_part_num, R(0))
        pending_qc_qty == initial_inv.pending_qc
        available_for_build == RAdd(inventory_before_this_so, R(pending_qc_qty))
    IN  RDiv(available_for_build, qty_per_unit(component))

\* Lines 185-197
component_build_calcs(bom_components, live_component, static_component) ==
    LET used == UsedLines(bom_components)
    IN  [k \in 1..Len(used) |->
            [part |-> used[k].Part,
             max_build |-> max_build_for_comp(used[k], live_component, static_component)]]

\* Lines 176, 198 and 200
RECURSIVE MinBuild(_, _)
MinBuild(calcs, acc) ==
    IF calcs = <<>> THEN acc
    ELSE MinBuild(Tail(calcs), RMin(acc, Head(calcs).max_build))

\* Variant: the running minimum starts at 0 instead of float('inf').
final_can_produce_qty_from_zero(calcs, net_production_qty) ==
    RMin(MinBuild(calcs, R(0)), R(net_production_qty))

\* Variant: the cap on the need is off by one.
final_can_produce_qty_over(calcs, net_production_qty) ==
    RMin(MinBuild(calcs, Inf), R(net_production_qty + 1))

final_can_produce_qty(calcs, net_production_qty) ==
    RMin(MinBuild(calcs, Inf), R(net_production_qty))

\* Lines 202-204
RECURSIVE bottleneck_parts(_, _)
bottleneck_parts(calcs, net_production_qty) ==
    IF calcs = <<>> THEN <<>>
    ELSE LET rest == bottleneck_parts(Tail(calcs), net_production_qty)
         IN  IF RLt(Head(calcs).max_build, R(net_production_qty))
             THEN <<Head(calcs).part>> \o rest
             ELSE rest

\* Variant: a part without a BOM is taken as buildable.
prod_status_missing_bom_ok(has_bom, can_produce, net_production_qty, fulfilled) ==
    LET material == IF ~has_bom THEN "ok"
                    ELSE IF RLe(R(net_production_qty), can_produce) THEN "ok"
                    ELSE IF RLt(R(0), can_produce) THEN "partial"
                    ELSE "critical"
    IN  IF fulfilled > 0 THEN "partial-ship" ELSE material

\* Variant: 'partial-ship' only when production falls short.
prod_status_shortfall_only(has_bom, can_produce, net_production_qty, fulfilled) ==
    LET material == IF ~has_bom THEN "critical"
                    ELSE IF RLe(R(net_production_qty), can_produce) THEN "ok"
                    ELSE IF RLt(R(0), can_produce) THEN "partial"
                    ELSE "critical"
    IN  IF fulfilled > 0 /\ RLt(can_produce, R(net_production_qty))
        THEN "partial-ship" ELSE material

\* Lines 180-183 and 206-214
prod_status(has_bom, can_produce, net_production_qty, fulfilled) ==
    LET material == IF ~has_bom THEN "critical"
                    ELSE IF RLe(R(net_production_qty), can_produce) THEN "ok"
                    ELSE IF RLt(R(0), can_produce) THEN "partial"
                    ELSE "critical"
    IN  IF fulfilled > 0 THEN "partial-ship" ELSE material

\* Variant: every ledger entry of the component is listed, the line's own too.
shared_with_so_unfiltered(log, comp_part_num, so) ==
    LET entries == Get(log, comp_part_num, <<>>)
        RECURSIVE Total(_)
        Total(es) == IF es = <<>> THEN R(0)
                     ELSE RAdd(Head(es).allocated, Total(Tail(es)))
    IN  IF RLt(R(0), Total(entries))
        THEN << <<"Total Allocated to Prior SOs: ", Fmt2(Total(entries))>> >>
             \o [k \in 1..Len(entries) |->
                    <<"  - SO ", entries[k].so, Fmt2(entries[k].allocated)>>]
        ELSE <<>>

\* Lines 241-251
shared_with_so(log, comp_part_num, so) ==
    LET entries == Get(log, comp_part_num, <<>>)
        others == SelectSeq(entries, LAMBDA a : a.so # so)
        RECURSIVE Total(_)
        Total(es) == IF es = <<>> THEN R(0)
                     ELSE RAdd(Head(es).allocated, Total(Tail(es)))
    IN  IF RLt(R(0), Total(others))
        THEN << <<"Total Allocated to Prior SOs: ", Fmt2(Total(others))>> >>
             \o [k \in 1..Len(others) |->
                    <<"  - SO ", others[k].so, Fmt2(others[k].allocated)>>]
        ELSE <<>>

\* Variant: the requirement is allocated whatever the pool holds.
allocated_for_this_so_unchecked(inventory_before_this_so, required_for_constrained_build) ==
    required_for_constrained_build

\* Line 228
allocated_for_this_so(inventory_before_this_so, required_for_constrained_build) ==
    RMin(inventory_before_this_so, required_for_constrained_build)

\* Variant: the component pool is never written.
DepleteComponent_forgotten(live, comp_part_num, allocated) == live

\* Lines 229-230
DepleteComponent(live, comp_part_num, allocated) ==
    IF comp_part_num \in DOMAIN live
    THEN [live EXCEPT ![comp_part_num] = RSub(@, allocated)]
    ELSE live

\* Variant: the shortfall is not floored at zero.
shortfall_signed(total_original_need, available_for_allocation_with_po) ==
    RSub(total_original_need, available_for_allocation_with_po)

\* Line 239
shortfall(total_original_need, available_for_allocation_with_po) ==
    RMax(R(0), RSub(total_original_need, available_for_allocation_with_po))

\* Variant: an allocation of nothing is logged too.
LogAllocation_always(log, comp_part_num, so, allocated) ==
    LET log0 == IF comp_part_num \in DOMAIN log THEN log
                ELSE Put(log, comp_part_num, <<>>)
    IN  [log0 EXCEPT ![comp_part_num] = Append(@, [so |-> so, allocated |-> allocated])]

\* Lines 232-235
LogAllocation(log, comp_part_num, so, allocated) ==
    LET log0 == IF comp_part_num \in DOMAIN log THEN log
                ELSE Put(log, comp_part_num, <<>>)
    IN  IF RLt(R(0), allocated)
        THEN [log0 EXCEPT ![comp_part_num] =
                 Append(@, [so |-> so, allocated |-> allocated])]
        ELSE log0

\* Lines 218-259: one pass of the second loop over a BOM line that is not
\* skipped; st = [live, log, details]
AllocateOne(component, st, so, ord_qty_curr_level, net_production_qty, can_produce, static_component, pos) ==
    LET comp_part_num == component.Part
        qpu == qty_per_unit(component)
        initial_inv == Get(static_component, comp_part_num,
                           [approved |-> 0, pending_qc |-> 0])
        inventory_before_this_so == Get(st.live, comp_part_num, R(0))
        open_po_qty == Get(pos, comp_part_num, 0)
        required_for_constrained_build == RMul(can_produce, qpu)
        allocated ==
            allocated_for_this_so(inventory_before_this_so,
                                  required_for_constrained_build)
        live == DepleteComponent(st.live, comp_part_num, allocated)
        log == LogAllocation(st.log, comp_part_num, so, allocated)
        total_original_need == RMul(R(net_production_qty), qpu)
        available_for_allocation_with_po ==
            RAdd(RAdd(inventory_before_this_so, R(initial_inv.pending_qc)),
                 R(open_po_qty))
    IN  [live |-> live,
         log |-> log,
         details |-> Append(st.details,
             [part_number |-> comp_part_num,
              description |-> component.Description,
              shared_with_so |-> shared_with_so(log, comp_part_num, so),
              total_required |-> RMul(R(ord_qty_curr_level), qpu),
              on_hand_initial |-> initial_inv.approved,
              inventory_before_this_so |-> inventory_before_this_so,
              allocated_for_this_so |-> allocated,
              open_po_qty |-> open_po_qty,
              shortfall |-> shortfall(total_original_need,
                                      available_for_allocation_with_po)])]

RECURSIVE AllocateComponents(_, _, _, _, _, _, _, _)
AllocateComponents(used, st, so, ord_qty_curr_level, net_production_qty, can_produce, static_component, pos) ==
    IF used = <<>> THEN st
    ELSE AllocateComponents(Tail(used),
             AllocateOne(Head(used), st, so, ord_qty_curr_level,
                         net_production_qty, can_produce, static_component, pos),
             so, ord_qty_curr_level, net_production_qty, can_produce,
             static_component, pos)

\* Lines 182, 208, 211 and 261-272
bottleneck_text(has_bom, status, can_produce, net_production_qty, fulfilled, parts, is_job_created, job_text) ==
    LET first == IF ~has_bom THEN <<"No BOM Found">>
                 ELSE IF RLe(R(net_production_qty), can_produce)
                      THEN <<"Full Production Ready - Create job now">>
                      ELSE <<"Material Shortage">>
        second == IF ~has_bom THEN first
                  ELSE IF status = "partial"
                       THEN <<"Partial Production Ready - Producible: ",
                              Fmt0(can_produce), " - ", parts>>
                  ELSE IF status = "critical"
                       THEN <<"Critical Shortage - ", parts>>
                  ELSE first
        third == IF is_job_created
                 THEN (IF parts # <<>> THEN <<job_text, " - ", parts>> ELSE job_text)
                 ELSE second
    IN  IF status = "partial-ship"
        THEN <<"Partial Ship: ", Fmt0(R(fulfilled)), " / Prod. Needed: ",
               Fmt0(R(net_production_qty)), " / Producible: ", Fmt0(can_produce)>>
        ELSE third

\* Variant: the job overlay gives way to a material problem.
final_status_material_first(is_job_created, status) ==
    IF is_job_created /\ status = "ok" THEN "job-created" ELSE status

\* Line 274
final_status(is_job_created, status) ==
    IF is_job_created THEN "job-created" ELSE status

\* Lines 290-293
shifts_required(caps, net_production_qty) ==
    IF caps # <<>> /\ caps[1] > 0
    THEN RDiv(R(net_production_qty), R(caps[1]))
    ELSE R(0)

\* The loop body on line `so`, from the live pools and the ledger given:
\* [so, fg_approved, fg_qc, live, log, result]
ProcessOne(so0, fg_approved, fg_qc, live_component, log) ==
    LET part_number == so0.Part
        so_number == Str(so0.SO)
        ord_qty_curr_level == so0.OrdQty
        fg_inv_static == Get(fg_inventory_map, part_number,
                             [approved |-> 0, pending_qc |-> 0])
        is_job_created == so_number \in DOMAIN jobs_by_so
        job_details_for_so == IF is_job_created THEN jobs_by_so[so_number] ELSE <<>>
        job_text == IF is_job_created THEN bottleneck_text_for_job(job_details_for_so)
                    ELSE <<>>
        fulfilled == fulfilled_from_approved(ord_qty_curr_level, fg_approved, part_number)
        fg_approved1 == Deplete(fg_approved, part_number, fulfilled)
        needed == ord_qty_curr_level - fulfilled
        so == Put(Put(Put(so0, "OnHandQtyApproved", fg_inv_static.approved),
                      "OnHandQtyPendingQC", fg_inv_static.pending_qc),
                  "NetQty", IF needed > 0 THEN needed ELSE 0)
        available_qc == Get(fg_qc, part_number, 0)
        \* line 174 on
        net_production_qty == needed
        bom_components == Get(boms_by_parent, part_number, <<>>)
        has_bom == bom_components # <<>>
        calcs == component_build_calcs(bom_components, live_component,
                                       component_inventory)
        can_produce == IF has_bom THEN final_can_produce_qty(calcs, net_production_qty)
                       ELSE R(0)
        parts == IF has_bom THEN bottleneck_parts(calcs, net_production_qty) ELSE <<>>
        status == prod_status(has_bom, can_produce, net_production_qty, fulfilled)
        alloc == AllocateComponents(UsedLines(bom_components),
                     [live |-> live_component, log |-> log, details |-> <<>>],
                     so.SO, ord_qty_curr_level, net_production_qty, can_produce,
                     component_inventory, pos_by_part)
    IN  IF needed <= 0
        THEN [so |-> so, fg_approved |-> fg_approved1, fg_qc |-> fg_qc,
              live |-> live_component, log |-> log,
              result |->
                [sales_order |-> so, components |-> <<>>, bottleneck |-> <<"None">>,
                 can_produce_qty |-> R(ord_qty_curr_level),
                 status |-> "ready-to-ship", shifts_required |-> R(0),
                 shippable_qty |-> fulfilled, producible_qty |-> R(0),
                 material_status |-> "ready-to-ship"]]
        ELSE IF covered_by_pending_qc(needed, available_qc)
        THEN [so |-> so, fg_approved |-> fg_approved1,
              fg_qc |-> Deplete(fg_qc, part_number, needed),
              live |-> live_component, log |-> log,
              result |->
                [sales_order |-> so, components |-> <<>>,
                 bottleneck |-> <<"Pending QC Hold: ", Fmt0(R(so.OnHandQtyPendingQC))>>,
                 can_produce_qty |-> R(fulfilled),
                 status |-> "pending-qc", shifts_required |-> R(0),
                 shippable_qty |-> fulfilled, producible_qty |-> R(0),
                 material_status |-> "pending-qc"]]
        ELSE [so |-> so, fg_approved |-> fg_approved1, fg_qc |-> fg_qc,
              live |-> alloc.live, log |-> alloc.log,
              result |->
                [sales_order |-> so, components |-> alloc.details,
                 bottleneck |-> bottleneck_text(has_bom, status, can_produce,
                                    net_production_qty, fulfilled, parts,
                                    is_job_created, job_text),
                 bottleneck_parts |-> parts,
                 can_produce_qty |-> RAdd(R(fulfilled), can_produce),
                 shifts_required |-> shifts_required(capacities, net_production_qty),
                 status |-> final_status(is_job_created, status),
                 material_status |-> status,
                 job_details |-> job_details_for_so,
                 shippable_qty |-> fulfilled,
                 producible_qty |-> can_produce]]

\* One iteration of the loop of line 113.
ProcessLine ==
    /\ pc = "loop"
    /\ next_line <= Len(sales_orders)
    /\ \E out \in {ProcessOne(sales_orders[next_line], live_fg_approved, live_fg_qc,
                              live_component_inventory, allocation_log)} :
           /\ sales_orders' = [sales_orders EXCEPT ![next_line] = out.so]
           /\ live_fg_approved' = out.fg_approved
           /\ live_fg_qc' = out.fg_qc
           /\ live_component_inventory' = out.live
           /\ allocation_log' = out.log
           /\ mrp_results' = Append(mrp_results, out.result)
    /\ next_line' = next_line + 1
    /\ UNCHANGED <<collaborators, concurrent, entry, shortages, summary, pc, run, supplied,
                   snapshot_maps, prev_results>>

\* Variant: the results are returned as the loop left them.
SortResults_unsorted(results) == results

\* Line 297
SortResults(results) ==
    StableSort(results, [k \in 1..Len(results) |-> results[k].sales_order.SO])

\* Lines 297-299: the loop is over; sort the results by SO and return them.
Finish ==
    /\ pc = "loop"
    /\ next_line > Len(sales_orders)
    /\ mrp_results' = SortResults(mrp_results)
    /\ pc' = "done"
    /\ UNCHANGED <<collaborators, concurrent, entry, shortages, summary, run, next_line, supplied,
                   sales_orders, snapshot_maps, live_fg_approved, live_fg_qc,
                   live_component_inventory, allocation_log, prev_results>>

\* Lines 42-49 in the order of the code: the position of the first collaborator
\* call that raises, 0 when all of them return.
Fetches == <<"get_open_order_schedule", "get_bom_data", "get_purchase_order_data",
             "get_raw_material_inventory", "get_on_hand_inventory",
             "capacity_db.get_all", "get_open_production_jobs">>

\* Variant: a failing open-jobs query is taken for "no open jobs".
FirstFailure_jobs_optional(bad) ==
    LET hit == {k \in 1..Len(Fetches) : Fetches[k] \in bad \ {"get_open_production_jobs"}}
    IN  IF hit = {} THEN 0 ELSE CHOOSE k \in hit : \A j \in hit : k <= j

FirstFailure(bad) ==
    LET hit == {k \in 1..Len(Fetches) : Fetches[k] \in bad}
    IN  IF hit = {} THEN 0 ELSE CHOOSE k \in hit : \A j \in hit : k <= j

\* No handler surrounds lines 42-49: the exception leaves the method, its locals
\* are dropped and nothing is returned.
Raise ==
    /\ pc' = "raised"
    /\ run' = run + 1
    /\ UNCHANGED <<collaborators, concurrent, next_line, supplied, sales_orders, snapshot_maps,
                   live_fg_approved, live_fg_qc, live_component_inventory,
                   allocation_log, mrp_results, prev_results>>

\* A call of `method`, whose get_open_order_schedule returns the list `fetched`.
Call(method, fetched) ==
    /\ entry' = method
    /\ shortages' = <<>>
    /\ summary' = <<>>
    /\ IF FirstFailure(unavailable) = 0 THEN Start(fetched) ELSE Raise

\* calculate_mrp_suggestions is called.
Invoke ==
    /\ pc = "idle"
    /\ Call("calculate_mrp_suggestions", erp.open_order_schedule)

\* calculate_mrp_suggestions is called again on the same snapshots; the sales
\* demand source hands over a fresh copy of its list, or the list object the
\* previous call sorted and annotated.
Reinvoke ==
    /\ pc = "done"
    /\ run < MaxRuns
    /\ \E fetched \in {erp.open_order_schedule, sales_orders} :
          Call("calculate_mrp_suggestions", fetched)

\* The demand lines of two calls between which the demand changes.
PrefixLines ==
    { Line(1, "P1", 2, NoDue), Line(2, "P1", 2, MDY(1, 5, 2025)),
      Line(2, "P1", 3, NoDue), Line(1, "P2", 1, MDY(1, 5, 2025)) }

\* calculate_mrp_suggestions is called a second time on the same snapshots, and
\* get_open_order_schedule returns another demand list than the first time
\* (erp.open_order_schedule keeps the list of the first call).
InvokeChanged ==
    /\ pc = "done"
    /\ run = 1
    /\ \E fetched \in SeqsUpTo(PrefixLines, MaxLines) :
          Call("calculate_mrp_suggestions", fetched)

(***************************************************************************)
(* A second invocation of calculate_mrp_suggestions that runs while the    *)
(* first one is under way, or after it, on the same snapshots.  Its locals *)
(* are the fields of `concurrent`; the snapshot maps it builds (lines      *)
(* 50-85) have the values of the first invocation's, which no step of the  *)
(* loop writes, and are read from there.  The two interleave between       *)
(* demand lines.  The sales demand source hands the second call a fresh    *)
(* list, or the list object it handed the first call.                      *)
(***************************************************************************)
\* Variant: the pools and the ledger are the first invocation's objects.
SeedPools_taken_over(fg_map, raw_rows, inventory) ==
    [live_fg_approved |-> live_fg_approved,
     live_fg_qc |-> live_fg_qc,
     live_component_inventory |-> live_component_inventory,
     allocation_log |-> allocation_log]

\* Lines 87-89 and 104-107: the live pools and the ledger of an invocation
SeedPools(fg_map, raw_rows, inventory) ==
    [live_fg_approved |-> [p \in DOMAIN fg_map |-> fg_map[p].approved],
     live_fg_qc |-> [p \in DOMAIN fg_map |-> fg_map[p].pending_qc],
     live_component_inventory |->
         SeedLiveComponentInventory(InventoryKeys(raw_rows), inventory),
     allocation_log |-> EmptyDict]

\* the list the second invocation iterates over
ConcurrentOrders ==
    IF concurrent.fresh THEN concurrent.sales_orders ELSE sales_orders

InvokeConcurrently ==
    /\ pc \in {"loop", "done"}
    /\ concurrent.pc = "idle"
    /\ \E fresh \in BOOLEAN :
          LET seed == SeedPools(fg_inventory_map, erp.raw_material_inventory,
                                component_inventory)
          IN  /\ sales_orders' = IF fresh THEN sales_orders
                                 ELSE SortSalesOrders(sales_orders)
              /\ concurrent' =
                    [pc |-> "loop", fresh |-> fresh, next_line |-> 1,
                     sales_orders |-> IF fresh
                                      THEN SortSalesOrders(erp.open_order_schedule)
                                      ELSE <<>>,
                     live_fg_approved |-> seed.live_fg_approved,
                     live_fg_qc |-> seed.live_fg_qc,
                     live_component_inventory |-> seed.live_component_inventory,
                     allocation_log |-> seed.allocation_log,
                     mrp_results |-> <<>>]
    /\ UNCHANGED <<collaborators, entry, shortages, summary, pc, run, next_line,
                   supplied, snapshot_maps, live_fg_approved, live_fg_qc,
                   live_component_inventory, allocation_log, mrp_results,
                   prev_results>>

ProcessLineConcurrently ==
    /\ concurrent.pc = "loop"
    /\ concurrent.next_line <= Len(ConcurrentOrders)
    /\ \E out \in {ProcessOne(ConcurrentOrders[concurrent.next_line],
                              concurrent.live_fg_approved, concurrent.live_fg_qc,
                              concurrent.live_component_inventory,
                              concurrent.allocation_log)} :
           /\ sales_orders' =
                  IF concurrent.fresh THEN sales_orders
                  ELSE [sales_orders EXCEPT ![concurrent.next_line] = out.so]
           /\ concurrent' =
                  [concurrent EXCEPT
                     !.sales_orders = IF concurrent.fresh
                                      THEN [@ EXCEPT ![concurrent.next_line] = out.so]
                                      ELSE @,
                     !.live_fg_approved = out.fg_approved,
                     !.live_fg_qc = out.fg_qc,
                     !.live_component_inventory = out.live,
                     !.allocation_log = out.log,
                     !.mrp_results = Append(@, out.result),
                     !.next_line = @ + 1]
    /\ UNCHANGED <<collaborators, entry, shortages, summary, pc, run, next_line,
                   supplied, snapshot_maps, live_fg_approved, live_fg_qc,
                   live_component_inventory, allocation_log, mrp_results,
                   prev_results>>

FinishConcurrently ==
    /\ concurrent.pc = "loop"
    /\ concurrent.next_line > Len(ConcurrentOrders)
    /\ concurrent' = [concurrent EXCEPT !.mrp_results = SortResults(@),
                                         !.pc = "done"]
    /\ UNCHANGED <<collaborators, entry, shortages, summary, pc, run, next_line,
                   supplied, sales_orders, snapshot_maps, live_fg_approved,
                   live_fg_qc, live_component_inventory, allocation_log,
                   mrp_results, prev_results>>

(***************************************************************************)
(* Lines 301-341: get_customer_summary.                                    *)
(***************************************************************************)
\* Python's None
None == [none |-> TRUE]

\* Lines 319-321
bottleneck_components(result) ==
    SelectSeq(result.components, LAMBDA comp : RLt(R(0), comp.shortfall))

\* Variant: an order with a job is never at risk.
summary_status_job_on_track(result) ==
    IF result.status = "critical" THEN "Critical"
    ELSE IF result.status \in {"partial", "partial-ship", "pending-qc"} THEN "At-Risk"
    ELSE "On-Track"

\* Lines 323-337
summary_status(result) ==
    LET has_bottlenecks == Len(bottleneck_components(result)) > 0
    IN  IF result.status = "critical" THEN "Critical"
        ELSE IF result.status = "job-created" /\ has_bottlenecks THEN "At-Risk"
        ELSE IF result.status \in {"partial", "partial-ship", "pending-qc"} THEN "At-Risk"
        ELSE "On-Track"

\* Lines 322 and 327-336: the keys the loop sets on the result object
AnnotateResult(result) ==
    Put(Put(result, "bottleneck_components", bottleneck_components(result)),
        "summary_status", summary_status(result))

\* Lines 317-339, on the summary as it stands
RECURSIVE SummariseOrders(_, _)
SummariseOrders(customer_orders, acc) ==
    IF customer_orders = <<>> THEN acc
    ELSE LET result == AnnotateResult(Head(customer_orders))
             bump(bucket) == IF result.summary_status = bucket THEN 1 ELSE 0
         IN  SummariseOrders(Tail(customer_orders),
                 [total_open_orders |-> acc.total_open_orders,
                  on_track_orders |-> acc.on_track_orders + bump("On-Track"),
                  at_risk_orders |-> acc.at_risk_orders + bump("At-Risk"),
                  critical_orders |-> acc.critical_orders + bump("Critical"),
                  orders |-> Append(acc.orders, result)])

get_customer_summary(customer_orders) ==
    IF customer_orders = <<>> THEN None
    ELSE SummariseOrders(customer_orders,
             [total_open_orders |-> Len(customer_orders), on_track_orders |-> 0,
              at_risk_orders |-> 0, critical_orders |-> 0, orders |-> <<>>])

\* the items of seq at the positions in picked, from position k on
RECURSIVE PickFrom(_, _, _)
PickFrom(seq, picked, k) ==
    IF k > Len(seq) THEN <<>>
    ELSE (IF k \in picked THEN <<seq[k]>> ELSE <<>>) \o PickFrom(seq, picked, k + 1)

\* get_customer_summary is called, once per run, on the results of the run that
\* a caller picked (for one customer); the result objects it annotates are those
\* of the list the run returned.
GetCustomerSummary ==
    /\ pc = "done"
    /\ entry = "calculate_mrp_suggestions"
    /\ summary = <<>>
    /\ \E picked \in SUBSET (1..Len(mrp_results)) :
          LET customer_orders == PickFrom(mrp_results, picked, 1)
          IN  /\ summary' = <<get_customer_summary(customer_orders)>>
              /\ mrp_results' =
                     [k \in 1..Len(mrp_results) |->
                         IF k \in picked THEN AnnotateResult(mrp_results[k])
                         ELSE mrp_results[k]]
    /\ UNCHANGED <<collaborators, concurrent, entry, shortages, pc, run, next_line, supplied,
                   sales_orders, snapshot_maps, live_fg_approved, live_fg_qc,
                   live_component_inventory, allocation_log, prev_results>>

(***************************************************************************)
(* Lines 343-416: get_consolidated_shortages.                              *)
(***************************************************************************)
\* Line 352: datetime.strptime('12/31/2999', '%m/%d/%Y').date()
far_future_date == 29991231

\* date.strftime('%m/%d/%Y')
Strftime(date) == MDY((date \div 100) % 100, date % 100, date \div 10000)

\* Variant: no part is reserved.
startswith_W_never(part_number) == FALSE

\* Line 365
startswith_W(part_number) == Initial(part_number) = "W"

\* sorted(list(a_set_of_strings))
SortedList(S) ==
    LET RECURSIVE Build(_)
        Build(rest) ==
            IF rest = {} THEN <<>>
            ELSE LET least == CHOOSE x \in rest : \A y \in rest : StrRank(x) <= StrRank(y)
                 IN  <<least>> \o Build(rest \ {least})
    IN  Build(S)

\* Lines 362-400 for one component detail with shortfall > 0;
\* acc = [shortages, all_customers]
ConsolidateOne(acc, so_info, customer, component) ==
    LET part_number == component.part_number
        fresh == [part_number |-> part_number,
                  description |-> component.description,
                  on_hand |-> component.on_hand_initial,
                  open_po_qty |-> component.open_po_qty,
                  total_shortfall |-> R(0),
                  affected_orders |-> <<>>,
                  affected_customers |-> {},
                  earliest_due_date |-> far_future_date]
        item == Get(acc.shortages, part_number, fresh)
        due_date_str == so_info.Due
        parsed == due_date_str.kind \notin {"absent", "empty"} /\ StrptimeOk(due_date_str)
        current_due_date == IF parsed THEN DateOf(due_date_str) ELSE 0
    IN  IF startswith_W(part_number) THEN acc
        ELSE [acc EXCEPT !.shortages = Put(@, part_number,
                 [item EXCEPT
                    !.total_shortfall = RAdd(@, component.shortfall),
                    !.affected_orders =
                        Append(@, [so |-> so_info.SO, customer |-> customer,
                                   due_date |-> due_date_str]),
                    !.affected_customers =
                        IF customer # "N/A" THEN @ \cup {customer} ELSE @,
                    !.earliest_due_date =
                        IF parsed /\ current_due_date < @ THEN current_due_date ELSE @])]

\* Lines 360-400 for one result
RECURSIVE ConsolidateComponents(_, _, _, _)
ConsolidateComponents(acc, so_info, customer, components) ==
    IF components = <<>> THEN acc
    ELSE ConsolidateComponents(
             IF RLt(R(0), Head(components).shortfall)
             THEN ConsolidateOne(acc, so_info, customer, Head(components))
             ELSE acc,
             so_info, customer, Tail(components))

\* Lines 354-400
RECURSIVE ConsolidateResults(_, _)
ConsolidateResults(acc, results) ==
    IF results = <<>> THEN acc
    ELSE LET so_info == Head(results).sales_order
             customer == Get(so_info, "CustomerName", "N/A")
             acc1 == IF customer # "N/A"
                     THEN [acc EXCEPT !.all_customers = @ \cup {customer}]
                     ELSE acc
         IN  ConsolidateResults(
                 ConsolidateComponents(acc1, so_info, customer, Head(results).components),
                 Tail(results))

\* Lines 350-416, on the results of the run
consolidated_shortages(results) ==
    LET acc == ConsolidateResults([shortages |-> EmptyDict, all_customers |-> {}], results)
        parts == SortedList(DOMAIN acc.shortages)
    IN  [shortages |->
            [k \in 1..Len(parts) |->
                LET item == acc.shortages[parts[k]]
                IN  [item EXCEPT
                       !.affected_customers = SortedList(@),
                       !.earliest_due_date =
                           IF @ = far_future_date THEN None ELSE Strftime(@)]],
         customers |-> SortedList(acc.all_customers)]

\* get_consolidated_shortages is called (line 348 runs the engine).
InvokeShortages ==
    /\ pc = "idle"
    /\ Call("get_consolidated_shortages", erp.open_order_schedule)

\* Lines 350-416: the engine has returned; consolidate and return.
Consolidate ==
    /\ pc = "done"
    /\ entry = "get_consolidated_shortages"
    /\ shortages' = <<consolidated_shortages(mrp_results)>>
    /\ pc' = "returned"
    /\ UNCHANGED <<collaborators, concurrent, entry, summary, run, next_line, supplied, sales_orders,
                   snapshot_maps, live_fg_approved, live_fg_qc, live_component_inventory,
                   allocation_log, mrp_results, prev_results>>

Next == Invoke \/ ProcessLine \/ Finish

NextShortages == InvokeShortages \/ ProcessLine \/ Finish \/ Consolidate

NextFailure == Invoke \/ NextShortages

NextSummary == Next \/ GetCustomerSummary

NextRerun == Next \/ Reinvoke

NextPrefix == Next \/ InvokeChanged

NextIsolation ==
    Next \/ InvokeConcurrently \/ ProcessLineConcurrently \/ FinishConcurrently

(***************************************************************************)
(* Input sets of the specifications.                                       *)
(***************************************************************************)
QtyChoices == {1, 3}

\* Only P1 is stocked as a finished good.
FGChoices ==
    {<<FGRow("P1", f[1], f[2])>> : f \in {<<0, 0>>, <<1, 2>>, <<4, 0>>, <<4, 2>>}}

\* C1 is always listed; W2 is listed or not.
RawChoices ==
    { <<RawRow("C1", 0, 0)>>,
      <<RawRow("C1", 2, 1), RawRow("W2", 1, 0)>>,
      <<RawRow("C1", 5, 0)>>,
      <<RawRow("C1", 5, 0), RawRow("W2", 1, 0)>> }

BomChoices ==
    { \* one component each; P2 with scrap: 2 * 1.5 = 3 per unit
      <<BomRow("P1", "C1", 1, 0), BomRow("P2", "C1", 2, 50), BomRow("P2", "W2", 1, 0)>>,
      \* P1 lists the same component twice; P2 has no BOM
      <<BomRow("P1", "C1", 1, 0), BomRow("P1", "C1", 1, 0)>>,
      \* P1 has only a zero-quantity line; P2 mixes a skipped line with a used one
      <<BomRow("P1", "C1", 0, 0), BomRow("P2", "W2", 0, 0), BomRow("P2", "C1", 1, 50)>>,
      \* P1, the stocked part, has no BOM
      <<BomRow("P2", "C1", 1, 0)>> }

PoChoices ==
    { <<PoRow("C1", 1), PoRow("C1", 0), PoRow("W2", -1)>> }

JobChoices ==
    { <<>>, <<JobRow(1, 7, 5, 2)>> }

CapChoices ==
    { <<CapRow(1, 4)>> }

Lines == {Line(so, part, qty, NoDue) : so \in SOIds, part \in FGParts, qty \in QtyChoices}

Init == InitWith(Lines, FGChoices, RawChoices, BomChoices, PoChoices, JobChoices,
                 CapChoices, {{}})

Spec == Init /\ [][Next]_vars

\* Raw-material rows whose part number arrives padded.
PaddedRawChoices ==
    { <<RawRow("C1  ", 2, 1), RawRow("W2", 1, 0)>>,
      <<RawRow("C1  ", 5, 0)>> }

InitPadded == InitWith(Lines, FGChoices, PaddedRawChoices, BomChoices, PoChoices,
                       JobChoices, CapChoices, {{}})

SpecPadded == InitPadded /\ [][Next]_vars

\* Repeated invocations over lines that differ in their due dates.
DueChoices ==
    { NoDue,
      [kind |-> "text", m |-> 0, d |-> 0, y |-> 0],
      MDY(1, 5, 2025),
      MDY(2, 1, 2025),
      MDY(2, 30, 2025),
      MDY(12, 31, 9999) }

DatedLines == {Line(so, "P1", 2, due) : so \in SOIds, due \in DueChoices}

InitRerun ==
    InitWith(DatedLines,
             {<<FGRow("P1", 3, 0)>>, <<FGRow("P1", 1, 2)>>},
             {<<RawRow("C1", 3, 0)>>},
             {<<BomRow("P1", "C1", 1, 0)>>},
             PoChoices, {<<>>}, CapChoices, {{}})

SpecRerun == InitRerun /\ [][NextRerun]_vars

\* Two calls on the same snapshots between which the demand changed.
InitPrefix ==
    InitWith(PrefixLines,
             {<<FGRow("P1", 3, 0)>>, <<FGRow("P1", 1, 2)>>},
             {<<RawRow("C1", 3, 1)>>},
             {<<BomRow("P1", "C1", 1, 0), BomRow("P2", "C1", 2, 0)>>},
             PoChoices, {<<>>}, CapChoices, {{}})

SpecPrefix == InitPrefix /\ [][NextPrefix]_vars

\* Two invocations at the same time: dated and undated lines competing for
\* finished goods and for one component, with and without an open job.
InitIsolation ==
    InitWith(PrefixLines,
             {<<FGRow("P1", 3, 0)>>, <<FGRow("P1", 1, 2)>>},
             {<<RawRow("C1", 3, 1)>>},
             {<<BomRow("P1", "C1", 1, 0), BomRow("P2", "C1", 2, 0)>>},
             PoChoices, JobChoices, CapChoices, {{}})

SpecIsolation == InitIsolation /\ [][NextIsolation]_vars

\* Runs whose results a caller has summarised: every status comes up.
InitSummary ==
    InitWith({Line(so, "P1", qty, NoDue) : so \in SOIds, qty \in QtyChoices},
             {<<FGRow("P1", f[1], f[2])>> : f \in {<<0, 0>>, <<1, 3>>, <<4, 1>>}},
             {<<RawRow("C1", 0, 0)>>, <<RawRow("C1", 4, 0)>>},
             {<<BomRow("P1", "C1", 1, 0)>>},
             PoChoices, JobChoices, CapChoices, {{}})

SpecSummary == InitSummary /\ [][NextSummary]_vars

\* Shortage reports over lines that differ in due date and customer.
ShortageDues ==
    { NoDue,
      [kind |-> "text", m |-> 0, d |-> 0, y |-> 0],
      MDY(1, 5, 2025),
      MDY(2, 1, 2025),
      MDY(1, 1, 3000) }

ShortageLines ==
    {CustLine(so, "P1", 3, due, "Acme") : so \in SOIds, due \in ShortageDues}
    \cup {Line(so, "P1", 3, NoDue) : so \in SOIds}

InitShortages ==
    InitWith(ShortageLines,
             {<<FGRow("P1", 0, 0)>>, <<FGRow("P1", 4, 1)>>},
             { \* everything is short
               <<RawRow("C1", 0, 0)>>,
               \* only the reserved part is short
               <<RawRow("C1", 4, 0), RawRow("A3", 9, 0)>>,
               \* C1 runs out on the second line
               <<RawRow("C1", 4, 0), RawRow("A3", 9, 0), RawRow("W2", 9, 0)>> },
             {<<BomRow("P1", "C1", 1, 0), BomRow("P1", "W2", 1, 0), BomRow("P1", "A3", 1, 0)>>},
             PoChoices, {<<>>}, CapChoices, {{}})

SpecShortages == InitShortages /\ [][NextShortages]_vars

\* Either method, with any set of collaborator calls failing.
InitFailure ==
    InitWith({Line(so, "P1", 3, NoDue) : so \in SOIds},
             {<<FGRow("P1", 1, 0)>>},
             {<<RawRow("C1", 4, 0)>>},
             {<<BomRow("P1", "C1", 1, 0)>>},
             PoChoices, {<<JobRow(1, 7, 5, 2)>>}, CapChoices,
             SUBSET {Fetches[k] : k \in 1..Len(Fetches)})

SpecFailure == InitFailure /\ [][NextFailure]_vars

(***************************************************************************)
(* Vocabulary of the properties.                                           *)
(***************************************************************************)
Min2(a, b) == IF a <= b THEN a ELSE b

Max2(a, b) == IF a >= b THEN a ELSE b

RECURSIVE RSum(_)
RSum(xs) == IF xs = <<>> THEN R(0) ELSE RAdd(Head(xs), RSum(Tail(xs)))

RECURSIVE ISum(_)
ISum(xs) == IF xs = <<>> THEN 0 ELSE Head(xs) + ISum(Tail(xs))

\* x is the least element of the set S of rationals
IsLeast(x, S) == x \in S /\ \A y \in S : RLe(x, y)

Range(f) == {f[k] : k \in DOMAIN f}

\* The snapshot quantities, read from the rows the ERP returned.
InitialFG(part) ==
    LET rows == SelectSeq(erp.on_hand_inventory, LAMBDA row : row.PartNumber = part)
    IN  IF rows = <<>> THEN [approved |-> 0, pending_qc |-> 0]
        ELSE [approved |-> rows[Len(rows)].on_hand_approved,
              pending_qc |-> rows[Len(rows)].on_hand_pending_qc]

InitialRaw(part) ==
    LET rows == SelectSeq(erp.raw_material_inventory,
                          LAMBDA row : Strip(row.PartNumber) = part)
    IN  IF rows = <<>> THEN [approved |-> 0, pending_qc |-> 0]
        ELSE [approved |-> rows[Len(rows)].on_hand_approved,
              pending_qc |-> rows[Len(rows)].on_hand_pending_qc]

BomOf(part) == SelectSeq(erp.bom_data, LAMBDA row : row.Parent = part)

\* quantity per unit of a BOM row, scrap included
Qpu(row) == Norm(row.Quantity * (100 + row.Scrap), 100)

HasOpenJob(so) == \E k \in 1..Len(erp.open_production_jobs) :
                      erp.open_production_jobs[k].so_number = so

\* The result came out of production planning (lines 174-295).
Planned(r) == "bottleneck_parts" \in DOMAIN r

\* The need left after ship-from-stock: the production target of a planned line.
NeedOf(r) == r.sales_order.OrdQty - r.shippable_qty

\* Quantities of component c allocated to result r
AllocatedIn(r, c) ==
    RSum([k \in 1..Len(r.components) |->
             IF r.components[k].part_number = c
             THEN r.components[k].allocated_for_this_so ELSE R(0)])

TotalAllocated(c) ==
    RSum([k \in 1..Len(mrp_results) |-> AllocatedIn(mrp_results[k], c)])

LedgerTotal(c) ==
    LET entries == Get(allocation_log, c, <<>>)
    IN  RSum([k \in 1..Len(entries) |-> entries[k].allocated])

\* A step of the loop: the line sales_orders[next_line] is processed and its
\* result is the last of mrp_results'.
LineStep == pc = "loop" /\ next_line' = next_line + 1

(***************************************************************************)
(* C1: every result, whichever path emitted it, has                        *)
(* shippable_qty + producible_qty <= the ordered quantity of its line.     *)
(***************************************************************************)
C1_ShippablePlusProducible ==
    \A k \in 1..Len(mrp_results) :
        LET r == mrp_results[k]
        IN  RLe(RAdd(R(r.shippable_qty), r.producible_qty), R(r.sales_order.OrdQty))

\* a line that ships part from stock and produces the whole rest
C1_Witness ==
    \E k \in 1..Len(mrp_results) :
        LET r == mrp_results[k]
        IN  /\ Planned(r)
            /\ r.shippable_qty > 0
            /\ RLt(R(0), r.producible_qty)
            /\ RAdd(R(r.shippable_qty), r.producible_qty) = R(r.sales_order.OrdQty)

(***************************************************************************)
(* C2: with non-negative inventories and ordered quantities, within a run  *)
(* every step leaves each live pool (FG approved, FG pending-QC, component *)
(* approved) of every part >= 0 and <= its value before the step.          *)
(***************************************************************************)
C2_PoolsOnlyDecrease ==
    [][run' = run =>
        /\ \A p \in FGParts :
              /\ 0 <= Get(live_fg_approved', p, 0)
              /\ Get(live_fg_approved', p, 0) <= Get(live_fg_approved, p, 0)
              /\ 0 <= Get(live_fg_qc', p, 0)
              /\ Get(live_fg_qc', p, 0) <= Get(live_fg_qc, p, 0)
        /\ \A c \in CompParts :
              /\ RLe(R(0), Get(live_component_inventory', c, R(0)))
              /\ RLe(Get(live_component_inventory', c, R(0)),
                     Get(live_component_inventory, c, R(0)))]_vars

\* all three pools have been drawn on, the component pool down to zero
C2_Witness ==
    /\ pc = "done"
    /\ Get(live_fg_approved, "P1", 0) < InitialFG("P1").approved
    /\ Get(live_fg_qc, "P1", 0) < InitialFG("P1").pending_qc
    /\ InitialRaw("C1").approved > 0
    /\ Get(live_component_inventory, "C1", R(0)) = R(0)

(***************************************************************************)
(* C3: for every component part, the allocations of a run (the             *)
(* allocated_for_this_so of all its results) sum to at most the part's     *)
(* initial approved + pending-QC quantity.                                 *)
(***************************************************************************)
C3_CumulativeAllocation ==
    \A c \in CompParts :
        RLe(TotalAllocated(c), R(InitialRaw(c).approved + InitialRaw(c).pending_qc))

\* two lines were each allocated some C1
C3_Witness ==
    /\ Len(mrp_results) = 2
    /\ \A k \in 1..2 : RLt(R(0), AllocatedIn(mrp_results[k], "C1"))

(***************************************************************************)
(* C4: at the end of a run, for every part, live FG approved = initial -   *)
(* sum of shippable_qty of the part's results; live FG pending-QC =        *)
(* initial - sum of the needs of the part's 'pending-qc' results; live     *)
(* component approved = initial - sum of the part's ledger entries.        *)
(***************************************************************************)
C4_PoolConservation ==
    pc = "done" =>
        /\ \A p \in FGParts :
              /\ Get(live_fg_approved, p, 0) =
                    InitialFG(p).approved
                    - ISum([k \in 1..Len(mrp_results) |->
                              IF mrp_results[k].sales_order.Part = p
                              THEN mrp_results[k].shippable_qty ELSE 0])
              /\ Get(live_fg_qc, p, 0) =
                    InitialFG(p).pending_qc
                    - ISum([k \in 1..Len(mrp_results) |->
                              IF /\ mrp_results[k].sales_order.Part = p
                                 /\ mrp_results[k].status = "pending-qc"
                              THEN NeedOf(mrp_results[k]) ELSE 0])
        /\ \A c \in CompParts :
              Get(live_component_inventory, c, R(0)) =
                  RSub(R(InitialRaw(c).approved), LedgerTotal(c))

\* one run drew on the three pools
C4_Witness ==
    /\ pc = "done"
    /\ \E k \in 1..Len(mrp_results) :
          mrp_results[k].status = "pending-qc" /\ mrp_results[k].shippable_qty > 0
    /\ RLt(R(0), LedgerTotal("C1"))

(***************************************************************************)
(* C7: ship-from-stock.  For the line processed by a step of the loop:     *)
(* shippable = min(ordered, live FG approved of its part before the step), *)
(* that pool falls by exactly shippable, need = ordered - shippable (the   *)
(* line's net quantity), and when need <= 0 the result is 'ready-to-ship'  *)
(* with producible 0.                                                      *)
(***************************************************************************)
C7_ShipFromStock ==
    [][LineStep =>
        LET so == sales_orders[next_line]
            r == mrp_results'[Len(mrp_results')]
            available == Get(live_fg_approved, so.Part, 0)
            shippable == Min2(so.OrdQty, available)
            need == so.OrdQty - shippable
        IN  /\ r.shippable_qty = shippable
            /\ Get(live_fg_approved', so.Part, 0) = available - shippable
            /\ \A p \in FGParts \ {so.Part} :
                  Get(live_fg_approved', p, 0) = Get(live_fg_approved, p, 0)
            /\ r.sales_order.NetQty = Max2(need, 0)
            /\ need <= 0 => /\ r.status = "ready-to-ship"
                            /\ r.producible_qty = R(0)
            /\ need > 0 => r.status # "ready-to-ship"]_vars

\* a line took the last of the stock and still needs more
C7_Witness ==
    \E k \in 1..Len(mrp_results) :
        /\ mrp_results[k].shippable_qty > 0
        /\ mrp_results[k].sales_order.NetQty > 0
        /\ Get(live_fg_approved, mrp_results[k].sales_order.Part, 0) = 0

(***************************************************************************)
(* C8: pending-QC is all-or-nothing.  For a line with need > 0 after       *)
(* ship-from-stock: if need <= live FG pending-QC of its part, that pool   *)
(* falls by exactly need, the status is 'pending-qc', producible is 0 and  *)
(* shippable keeps its step-1 value; otherwise the pending-QC pool is      *)
(* unchanged and the whole need is the production target (the quantity    *)
(* the shift estimate is computed from).                                   *)
(***************************************************************************)
C8_PendingQcAllOrNothing ==
    [][LineStep =>
        LET so == sales_orders[next_line]
            r == mrp_results'[Len(mrp_results')]
            shippable == Min2(so.OrdQty, Get(live_fg_approved, so.Part, 0))
            need == so.OrdQty - shippable
            qc == Get(live_fg_qc, so.Part, 0)
        IN  need > 0 =>
              IF need <= qc
              THEN /\ Get(live_fg_qc', so.Part, 0) = qc - need
                   /\ r.status = "pending-qc"
                   /\ r.producible_qty = R(0)
                   /\ r.shippable_qty = shippable
              ELSE /\ live_fg_qc' = live_fg_qc
                   /\ Planned(r)
                   /\ capacities # <<>> /\ capacities[1] > 0
                   /\ r.shifts_required = Norm(need, capacities[1])]_vars

\* a line was covered by pending-QC stock after shipping a part from approved stock
C8_Witness ==
    \E k \in 1..Len(mrp_results) :
        /\ mrp_results[k].status = "pending-qc"
        /\ mrp_results[k].shippable_qty > 0
        /\ Get(live_fg_qc, mrp_results[k].sales_order.Part, 0)
              < InitialFG(mrp_results[k].sales_order.Part).pending_qc

(***************************************************************************)
(* C9: for a line that reaches production planning with at least one BOM   *)
(* line of positive qty_per_unit, producible = min(production target,      *)
(* minimum over those BOM lines of (live component approved + static       *)
(* pending-QC of the component) / qty_per_unit); a component is in         *)
(* bottleneck_parts exactly when its own max_build < production target; so *)
(* producible < target iff bottleneck_parts is non-empty.                  *)
(***************************************************************************)
C9_ProducibleAndBottlenecks ==
    [][LineStep =>
        LET so == sales_orders[next_line]
            r == mrp_results'[Len(mrp_results')]
            bom == BomOf(so.Part)
            used == {k \in 1..Len(bom) : Qpu(bom[k])[1] > 0}
            target == so.OrdQty - r.shippable_qty
            MaxBuild(k) ==
                RDiv(RAdd(Get(live_component_inventory, bom[k].Part, R(0)),
                          R(InitialRaw(bom[k].Part).pending_qc)),
                     Qpu(bom[k]))
        IN  (Planned(r) /\ used # {}) =>
              /\ IsLeast(r.producible_qty,
                         {R(target)} \cup {MaxBuild(k) : k \in used})
              /\ Range(r.bottleneck_parts) =
                    {bom[k].Part : k \in {j \in used : RLt(MaxBuild(j), R(target))}}
              /\ RLt(r.producible_qty, R(target)) <=> r.bottleneck_parts # <<>>]_vars

\* a line whose production is capped by a component, pending-QC stock counted
C9_Witness ==
    \E k \in 1..Len(mrp_results) :
        LET r == mrp_results[k]
        IN  /\ Planned(r)
            /\ r.bottleneck_parts # <<>>
            /\ RLt(R(0), r.producible_qty)
            /\ \E j \in 1..Len(r.components) :
                  /\ InitialRaw(r.components[j].part_number).pending_qc > 0
                  /\ RLt(r.components[j].inventory_before_this_so,
                         RMul(r.producible_qty,
                              RDiv(r.components[j].total_required,
                                   R(r.sales_order.OrdQty))))

(***************************************************************************)
(* C10 as stated: for a line that reaches production planning with a BOM   *)
(* and whose SO has no open job, the status is 'ok' if producible >=       *)
(* target, else 'partial' if producible > 0, else 'critical', and          *)
(* 'partial-ship' when shippable > 0 together with producible < target.    *)
(***************************************************************************)
C10_StatusAsStated ==
    \A k \in 1..Len(mrp_results) :
        LET r == mrp_results[k]
            target == NeedOf(r)
        IN  (Planned(r) /\ BomOf(r.sales_order.Part) # <<>>
                        /\ ~HasOpenJob(r.sales_order.SO)) =>
              r.status =
                 IF r.shippable_qty > 0 /\ RLt(r.producible_qty, R(target))
                 THEN "partial-ship"
                 ELSE IF RLe(R(target), r.producible_qty) THEN "ok"
                 ELSE IF RLt(R(0), r.producible_qty) THEN "partial"
                 ELSE "critical"

(***************************************************************************)
(* C10 amended: for such a line the status is 'partial-ship' whenever      *)
(* shippable > 0, whatever the producible quantity; with shippable = 0 it  *)
(* is 'ok' if producible >= target, else 'partial' if producible > 0,      *)
(* else 'critical'.                                                        *)
(***************************************************************************)
C10_Status ==
    \A k \in 1..Len(mrp_results) :
        LET r == mrp_results[k]
            target == NeedOf(r)
        IN  (Planned(r) /\ BomOf(r.sales_order.Part) # <<>>
                        /\ ~HasOpenJob(r.sales_order.SO)) =>
              r.status =
                 IF r.shippable_qty > 0 THEN "partial-ship"
                 ELSE IF RLe(R(target), r.producible_qty) THEN "ok"
                 ELSE IF RLt(R(0), r.producible_qty) THEN "partial"
                 ELSE "critical"

\* a line ships a part from stock and the rest is fully producible
C10_Witness ==
    \E k \in 1..Len(mrp_results) :
        LET r == mrp_results[k]
        IN  /\ Planned(r)
            /\ BomOf(r.sales_order.Part) # <<>>
            /\ ~HasOpenJob(r.sales_order.SO)
            /\ r.shippable_qty > 0
            /\ r.producible_qty = R(NeedOf(r))
            /\ r.status = "partial-ship"

(***************************************************************************)
(* C5: every demand line is processed exactly once and yields one result,  *)
(* in ascending due-date order: a line with a parseable due date comes     *)
(* before every line with a later due date and before every line whose due *)
(* date is missing or unparsable; lines with equal (or both missing or     *)
(* unparsable) due dates keep their input order.  Stated on the results as *)
(* the loop leaves them, before they are sorted by SO.                     *)
(***************************************************************************)
BaseLine(l) == [SO |-> l.SO, Part |-> l.Part, OrdQty |-> l.OrdQty, Due |-> l.Due]

Parseable(l) == StrptimeOk(l.Due)

\* input line a (at index ia) is to be processed before input line b (at ib)
MustPrecede(a, ia, b, ib) ==
    \/ Parseable(a) /\ ~Parseable(b)
    \/ Parseable(a) /\ Parseable(b) /\ DateOf(a.Due) < DateOf(b.Due)
    \/ /\ ia < ib
       /\ \/ Parseable(a) /\ Parseable(b) /\ DateOf(a.Due) = DateOf(b.Due)
          \/ ~Parseable(a) /\ ~Parseable(b)

C5_DueDateOrder ==
    (pc = "loop" /\ next_line > Len(sales_orders)) =>
        /\ Len(mrp_results) = Len(supplied)
        /\ \E pi \in Permutations(1..Len(supplied)) :
              /\ \A k \in 1..Len(supplied) :
                    BaseLine(mrp_results[k].sales_order) = BaseLine(supplied[pi[k]])
              /\ \A j, k \in 1..Len(supplied) :
                    j < k => ~MustPrecede(supplied[pi[k]], pi[k], supplied[pi[j]], pi[j])

(***************************************************************************)
(* C6: a second run on the same frozen snapshots returns the results of    *)
(* the first, also when it is handed the demand list as the first run left *)
(* it (sorted and annotated).                                              *)
(***************************************************************************)
C6_Deterministic ==
    (pc = "done" /\ run >= 2) => mrp_results = prev_results

\* the second run got the list the first one left, two lines with the same
\* sort key competed for the stock, and the source's order was not SO order
C6_Witness ==
    /\ pc = "done"
    /\ run = 2
    /\ supplied # erp.open_order_schedule
    /\ Len(mrp_results) = 2
    /\ get_sort_date(supplied[1]) = get_sort_date(supplied[2])
    /\ mrp_results[1].shippable_qty # mrp_results[2].shippable_qty
    /\ erp.open_order_schedule[1].SO > erp.open_order_schedule[2].SO

C12_JobOverlayAsStated ==
    \A k \in 1..Len(mrp_results) :
        HasOpenJob(mrp_results[k].sales_order.SO) =>
            mrp_results[k].status = "job-created"

(***************************************************************************)
(* C12 amended: every demand line that reaches production planning and     *)
(* whose SO has one or more open jobs gets result status 'job-created',    *)
(* irrespective of its material status; a line fully shippable from stock  *)
(* or covered by pending-QC keeps the status 'ready-to-ship' or            *)
(* 'pending-qc', open jobs or not.                                         *)
(***************************************************************************)
C12_JobOverlay ==
    \A k \in 1..Len(mrp_results) :
        LET r == mrp_results[k]
        IN  IF Planned(r)
            THEN HasOpenJob(r.sales_order.SO) =>
                    /\ r.status = "job-created"
                    /\ r.material_status \in {"ok", "partial", "critical", "partial-ship"}
            ELSE r.status = IF NeedOf(r) <= 0 THEN "ready-to-ship" ELSE "pending-qc"

\* one SO with an open job has a line shipped from stock and a planned line
\* that is short of material
C12_Witness ==
    \E j, k \in 1..Len(mrp_results) :
        /\ HasOpenJob(mrp_results[j].sales_order.SO)
        /\ mrp_results[j].status = "ready-to-ship"
        /\ HasOpenJob(mrp_results[k].sales_order.SO)
        /\ Planned(mrp_results[k])
        /\ mrp_results[k].status = "job-created"
        /\ mrp_results[k].material_status = "critical"

(***************************************************************************)
(* C13: for every line with status 'job-created', the bottleneck text is   *)
(* the job-progress summary (a single job: its number and its completed /  *)
(* required counts; several jobs: the list of their numbers), followed by  *)
(* the names of the bottleneck components of production planning when      *)
(* there are any, and by nothing else.                                     *)
(***************************************************************************)
JobsOf(so) == SelectSeq(erp.open_production_jobs, LAMBDA job : job.so_number = so)

JobSummary(so) ==
    LET jobs == JobsOf(so)
    IN  IF Len(jobs) = 1
        THEN <<"Job: ", jobs[1].jo_jobnum, "(", jobs[1].completed_quantity, "/",
               jobs[1].job_quantity, ")">>
        ELSE <<"Jobs: ", [k \in 1..Len(jobs) |-> jobs[k].jo_jobnum]>>

JobTextOf(r) ==
    IF r.bottleneck_parts # <<>>
    THEN <<JobSummary(r.sales_order.SO), " - ", r.bottleneck_parts>>
    ELSE JobSummary(r.sales_order.SO)

C13_JobOverlayText ==
    \A k \in 1..Len(mrp_results) :
        mrp_results[k].status = "job-created" =>
            mrp_results[k].bottleneck = JobTextOf(mrp_results[k])

\* the claim restricted to the lines that ship nothing from stock
C13_JobOverlayTextNoShipment ==
    \A k \in 1..Len(mrp_results) :
        (mrp_results[k].status = "job-created" /\ mrp_results[k].shippable_qty = 0) =>
            mrp_results[k].bottleneck = JobTextOf(mrp_results[k])

(***************************************************************************)
(* C14: component depletion and ledger.  For the line processed by a step  *)
(* of the loop that reached production planning, and each of its BOM lines *)
(* of positive qty_per_unit, in BOM order: allocated = min(live component  *)
(* approved at that moment, producible * qty_per_unit); the live pool of   *)
(* the component falls by exactly what was allocated; the component's      *)
(* ledger gains, at its end, one entry {SO, allocated} per BOM line with   *)
(* allocated > 0 and none otherwise; the entries the ledger held before    *)
(* the step stay as they were, in their order.  A line that does not reach *)
(* production planning changes neither.                                    *)
(***************************************************************************)
\* the BOM lines of positive quantity per unit, in BOM order
PositiveBom(part) == SelectSeq(BomOf(part), LAMBDA row : Qpu(row)[1] > 0)

\* what the details before the k-th were allocated of component c
RECURSIVE AllocatedBefore(_, _, _)
AllocatedBefore(details, k, c) ==
    IF k <= 1 THEN R(0)
    ELSE RAdd(AllocatedBefore(details, k - 1, c),
              IF details[k - 1].part_number = c
              THEN details[k - 1].allocated_for_this_so ELSE R(0))

\* the ledger entries the details call for, for component c of order so
EntriesFor(details, c, so) ==
    LET sel == SelectSeq(details, LAMBDA d : /\ d.part_number = c
                                             /\ RLt(R(0), d.allocated_for_this_so))
    IN  [k \in 1..Len(sel) |-> [so |-> so, allocated |-> sel[k].allocated_for_this_so]]

C14_DepletionAndLedger ==
    [][LineStep =>
        LET so == sales_orders[next_line]
            r == mrp_results'[Len(mrp_results')]
            bom == PositiveBom(so.Part)
            Live(c) == Get(live_component_inventory, c, R(0))
        IN  IF Planned(r)
            THEN /\ Len(r.components) = Len(bom)
                 /\ \A k \in 1..Len(bom) :
                       LET d == r.components[k]
                           at_that_moment ==
                               RSub(Live(bom[k].Part),
                                    AllocatedBefore(r.components, k, bom[k].Part))
                           required == RMul(r.producible_qty, Qpu(bom[k]))
                       IN  /\ d.part_number = bom[k].Part
                           /\ d.inventory_before_this_so = at_that_moment
                           /\ IsLeast(d.allocated_for_this_so, {at_that_moment, required})
                 /\ \A c \in CompParts :
                       /\ Get(live_component_inventory', c, R(0)) =
                              RSub(Live(c), AllocatedIn(r, c))
                       /\ Get(allocation_log', c, <<>>) =
                              Get(allocation_log, c, <<>>) \o EntriesFor(r.components, c, so.SO)
            ELSE /\ live_component_inventory' = live_component_inventory
                 /\ allocation_log' = allocation_log]_vars

\* the ledger of C1 holds two entries of one line whose BOM lists C1 twice, and
\* a later line was allocated nothing and left no entry
C14_Witness ==
    /\ Len(mrp_results) = 2
    /\ Len(Get(allocation_log, "C1", <<>>)) = 2
    /\ \E j, k \in 1..2 :
          /\ Len(EntriesFor(mrp_results[j].components, "C1",
                            mrp_results[j].sales_order.SO)) = 2
          /\ Len(mrp_results[k].components) > 0
          /\ AllocatedIn(mrp_results[k], "C1") = R(0)

(***************************************************************************)
(* C15: for every component detail of the line processed by a step of the  *)
(* loop, shortfall = max(0, production target * qty_per_unit - (live       *)
(* component quantity before this allocation + the component's static      *)
(* pending-QC + the component's open PO total)); it is never negative; and *)
(* it moves nothing: a component of which nothing is allocated keeps its   *)
(* live pool and its ledger, whatever its shortfall.                       *)
(***************************************************************************)
\* the open purchase order total of a part: its positive open quantities
OpenPoTotal(c) ==
    ISum([k \in 1..Len(erp.purchase_order_data) |->
            IF /\ erp.purchase_order_data[k].Part = c
               /\ erp.purchase_order_data[k].OpenPOQuantity > 0
            THEN erp.purchase_order_data[k].OpenPOQuantity ELSE 0])

C15_Shortfall ==
    [][LineStep =>
        LET so == sales_orders[next_line]
            r == mrp_results'[Len(mrp_results')]
            bom == PositiveBom(so.Part)
            target == so.OrdQty - r.shippable_qty
        IN  /\ Len(r.components) = IF Planned(r) THEN Len(bom) ELSE 0
            /\ \A k \in 1..Len(r.components) :
                  LET c == bom[k].Part
                      before == RSub(Get(live_component_inventory, c, R(0)),
                                     AllocatedBefore(r.components, k, c))
                      cover == RAdd(before,
                                    R(InitialRaw(c).pending_qc + OpenPoTotal(c)))
                      gap == RSub(RMul(R(target), Qpu(bom[k])), cover)
                  IN  /\ r.components[k].shortfall = IF RLt(R(0), gap) THEN gap ELSE R(0)
                      /\ RLe(R(0), r.components[k].shortfall)
            /\ \A c \in CompParts :
                  AllocatedIn(r, c) = R(0) =>
                      /\ Get(live_component_inventory', c, R(0)) =
                             Get(live_component_inventory, c, R(0))
                      /\ Get(allocation_log', c, <<>>) = Get(allocation_log, c, <<>>)]_vars

\* a component with stock, pending-QC stock and an open purchase order is still
\* short, and another detail of the run is fully covered
C15_Witness ==
    \E j, k \in 1..Len(mrp_results) :
        /\ \E i \in 1..Len(mrp_results[j].components) :
              LET d == mrp_results[j].components[i]
              IN  /\ RLt(R(0), d.shortfall)
                  /\ RLt(R(0), d.inventory_before_this_so)
                  /\ d.open_po_qty > 0
                  /\ InitialRaw(d.part_number).pending_qc > 0
        /\ \E i \in 1..Len(mrp_results[k].components) :
              /\ mrp_results[k].components[i].shortfall = R(0)
              /\ RLt(mrp_results[k].components[i].allocated_for_this_so,
                     mrp_results[k].components[i].inventory_before_this_so)

(***************************************************************************)
(* C16: the returned result list is in ascending SO order, and the final   *)
(* sort only permutes the results of the loop: every result, with its      *)
(* shippable, producible, allocated and shortfall values, is one the loop  *)
(* computed in priority order.                                             *)
(***************************************************************************)
C16_FinalOrder ==
    [][(pc = "loop" /\ pc' = "done") =>
        /\ \A j, k \in 1..Len(mrp_results') :
              j < k => mrp_results'[j].sales_order.SO <= mrp_results'[k].sales_order.SO
        /\ Len(mrp_results') = Len(mrp_results)
        /\ \E pi \in Permutations(1..Len(mrp_results)) :
              \A k \in 1..Len(mrp_results) : mrp_results'[k] = mrp_results[pi[k]]]_vars

\* the line of SO 2 came first and took the stock and the components; the
\* returned list shows SO 1 first, with the little that was left for it
C16_Witness ==
    /\ pc = "done"
    /\ Len(mrp_results) = 2
    /\ sales_orders[1].SO = 2
    /\ sales_orders[2].SO = 1
    /\ mrp_results[1].sales_order.SO = 1
    /\ mrp_results[2].sales_order.SO = 2
    /\ mrp_results[1].shippable_qty < mrp_results[2].shippable_qty
    /\ mrp_results[2].shippable_qty = mrp_results[2].sales_order.OrdQty
    /\ RLt(R(0), AllocatedIn(mrp_results[1], "C1"))

(***************************************************************************)
(* C17: get_customer_summary puts every result it is given into exactly    *)
(* one class: 'Critical' if its status is 'critical'; 'At-Risk' if its     *)
(* status is 'job-created' and some component has shortfall > 0, or its    *)
(* status is 'partial', 'partial-ship' or 'pending-qc'; 'On-Track'         *)
(* otherwise; the three counts are the numbers of results of each class    *)
(* and add up to total_open_orders.                                        *)
(***************************************************************************)
ClassOf(r) ==
    IF r.status = "critical" THEN "Critical"
    ELSE IF \/ /\ r.status = "job-created"
               /\ \E k \in 1..Len(r.components) : RLt(R(0), r.components[k].shortfall)
            \/ r.status \in {"partial", "partial-ship", "pending-qc"}
    THEN "At-Risk"
    ELSE "On-Track"

\* the results that were handed to get_customer_summary
Summarised == SelectSeq(mrp_results, LAMBDA r : "summary_status" \in DOMAIN r)

CountOf(orders, class) == Cardinality({k \in 1..Len(orders) : ClassOf(orders[k]) = class})

C17_CustomerSummary ==
    (summary # <<>> /\ Summarised # <<>>) =>
        LET s == summary[1]
        IN  /\ s.orders = Summarised
            /\ \A k \in 1..Len(s.orders) :
                  /\ s.orders[k].summary_status \in {"Critical", "At-Risk", "On-Track"}
                  /\ s.orders[k].summary_status = ClassOf(s.orders[k])
            /\ s.critical_orders = CountOf(s.orders, "Critical")
            /\ s.at_risk_orders = CountOf(s.orders, "At-Risk")
            /\ s.on_track_orders = CountOf(s.orders, "On-Track")
            /\ s.total_open_orders = Len(s.orders)
            /\ s.critical_orders + s.at_risk_orders + s.on_track_orders
                  = s.total_open_orders

\* two lines of an SO with an open job: one fully producible and on track, one
\* short of a component and at risk
C17_Witness ==
    /\ summary # <<>>
    /\ Len(Summarised) = 2
    /\ summary[1].at_risk_orders = 1
    /\ summary[1].on_track_orders = 1
    /\ \A k \in 1..2 : summary[1].orders[k].status = "job-created"

(***************************************************************************)
(* C18: get_consolidated_shortages returns an entry for a component part   *)
(* exactly when the part does not start with 'W' and some result has a     *)
(* component detail for it with shortfall > 0; the entry's total_shortfall *)
(* is the sum of the part's shortfall over all component details of all    *)
(* results.                                                                *)
(***************************************************************************)
\* the details of part c in the results
ShortfallOf(r, c) ==
    RSum([k \in 1..Len(r.components) |->
             IF r.components[k].part_number = c
             THEN r.components[k].shortfall ELSE R(0)])

TotalShortfall(c) == RSum([k \in 1..Len(mrp_results) |-> ShortfallOf(mrp_results[k], c)])

\* the results with a detail of part c that is short
AffectedBy(c) ==
    {k \in 1..Len(mrp_results) :
        \E j \in 1..Len(mrp_results[k].components) :
            /\ mrp_results[k].components[j].part_number = c
            /\ RLt(R(0), mrp_results[k].components[j].shortfall)}

EntriesOf(c) ==
    {k \in 1..Len(shortages[1].shortages) : shortages[1].shortages[k].part_number = c}

C18_ConsolidatedShortages ==
    pc = "returned" =>
        /\ \A k \in 1..Len(shortages[1].shortages) :
              shortages[1].shortages[k].part_number \in CompParts
        /\ \A c \in CompParts :
              /\ Cardinality(EntriesOf(c)) =
                    IF c \notin {"W2"} /\ AffectedBy(c) # {} THEN 1 ELSE 0
              /\ \A k \in EntriesOf(c) :
                    shortages[1].shortages[k].total_shortfall = TotalShortfall(c)

\* two orders are short of C1 and of the reserved part W2: C1 is reported with
\* the sum of the two shortfalls, W2 is not reported
C18_Witness ==
    /\ pc = "returned"
    /\ Cardinality(AffectedBy("C1")) = 2
    /\ Cardinality(AffectedBy("W2")) = 2
    /\ EntriesOf("W2") = {}
    /\ \E k \in EntriesOf("C1") :
          /\ RLt(ShortfallOf(mrp_results[1], "C1"),
                 shortages[1].shortages[k].total_shortfall)
          /\ RLt(ShortfallOf(mrp_results[2], "C1"),
                 shortages[1].shortages[k].total_shortfall)

(***************************************************************************)
(* C19: for every entry that get_consolidated_shortages returns,           *)
(* earliest_due_date is the least parseable due date among the orders      *)
(* affected by the part's shortfall, and it is absent (None) if and only   *)
(* if none of those orders has a parseable due date.                       *)
(***************************************************************************)
ParseableDues(c) ==
    {DateOf(mrp_results[k].sales_order.Due) :
        k \in {j \in AffectedBy(c) : Parseable(mrp_results[j].sales_order)}}

C19_EarliestDueDate ==
    pc = "returned" =>
        \A k \in 1..Len(shortages[1].shortages) :
            LET item == shortages[1].shortages[k]
                dues == ParseableDues(item.part_number)
            IN  /\ item.earliest_due_date = None <=> dues = {}
                /\ dues # {} =>
                      item.earliest_due_date =
                          Strftime(CHOOSE d \in dues : \A e \in dues : d <= e)

\* the claim with the due dates from 12/31/2999 on left out of the parseable ones
C19_EarliestDueDateBeforeSentinel ==
    pc = "returned" =>
        \A k \in 1..Len(shortages[1].shortages) :
            LET item == shortages[1].shortages[k]
                dues == {d \in ParseableDues(item.part_number) : d < far_future_date}
            IN  /\ item.earliest_due_date = None <=> dues = {}
                /\ dues # {} =>
                      item.earliest_due_date =
                          Strftime(CHOOSE d \in dues : \A e \in dues : d <= e)

(***************************************************************************)
(* C20: upstream data failure.  Every collaborator fetch (sales demand,    *)
(* BOM, purchase orders, component inventory, FG inventory, capacity, open *)
(* jobs) completes before the first demand line is processed: the step     *)
(* that enters the loop is taken only when no fetch fails, it leaves every *)
(* lookup filled from its source, and the steps of the loop change none of *)
(* them.  If any fetch fails, the call ends in the exception: no demand    *)
(* line is allocated against, no result list and no shortage report is     *)
(* returned, and nothing follows.                                          *)
(***************************************************************************)
RowsOf(rows, field) == {rows[k][field] : k \in 1..Len(rows)}

C20_UpstreamFailure ==
    [][/\ (pc = "idle" /\ pc' = "loop") =>
             /\ unavailable = {}
             /\ next_line' = 1
             /\ mrp_results' = <<>>
             /\ Len(sales_orders') = Len(erp.open_order_schedule)
             /\ Range(sales_orders') = Range(erp.open_order_schedule)
             /\ DOMAIN boms_by_parent' = RowsOf(erp.bom_data, "Parent")
             /\ DOMAIN pos_by_part' =
                   {c \in RowsOf(erp.purchase_order_data, "Part") : OpenPoTotal(c) > 0}
             /\ DOMAIN component_inventory' = RowsOf(erp.raw_material_inventory, "PartNumber")
             /\ DOMAIN fg_inventory_map' = RowsOf(erp.on_hand_inventory, "PartNumber")
             /\ Len(capacities') = Len(capacity_db)
             /\ DOMAIN jobs_by_so' =
                   {Str(so) : so \in RowsOf(erp.open_production_jobs, "so_number")}
       /\ pc = "loop" => snapshot_maps' = snapshot_maps
       /\ (pc = "idle" /\ unavailable # {}) =>
             /\ pc' = "raised"
             /\ mrp_results' = <<>>
             /\ shortages' = <<>>
             /\ allocation_log' = EmptyDict
             /\ live_component_inventory' = EmptyDict
             /\ live_fg_approved' = EmptyDict
             /\ live_fg_qc' = EmptyDict
       /\ pc # "raised"]_vars

\* only the last fetch, the open jobs, failed, with demand waiting
C20_Witness ==
    /\ pc = "raised"
    /\ unavailable = {"get_open_production_jobs"}
    /\ Len(erp.open_order_schedule) = 2
    /\ mrp_results = <<>>

(***************************************************************************)
(* C22.  The snapshot maps are never written once the loop has started:    *)
(* depleting a live pool leaves the snapshot's quantities as they were, so *)
(* every component detail reports on_hand_initial equal to the component's *)
(* initial approved quantity and open_po_qty equal to the sum of its       *)
(* strictly positive open PO quantities, wherever the line stands in the   *)
(* processing order.                                                       *)
(***************************************************************************)
C22_SnapshotsReported ==
    [][LineStep =>
        LET r == mrp_results'[Len(mrp_results')]
        IN  /\ snapshot_maps' = snapshot_maps
            /\ \A j \in 1..Len(r.components) :
                  LET d == r.components[j]
                  IN  /\ d.on_hand_initial = InitialRaw(d.part_number).approved
                      /\ d.open_po_qty = OpenPoTotal(d.part_number)]_vars

(***************************************************************************)
(* C23.  A line that ends at ship-from-stock ('ready-to-ship': nothing is  *)
(* left to cover after the approved stock) or at the pending-QC check      *)
(* ('pending-qc': pending-QC stock covers what is left) leaves the live    *)
(* component pool and the allocation ledger unchanged and has an empty     *)
(* component-detail list; a 'ready-to-ship' line leaves the live FG        *)
(* pending-QC pool unchanged as well.                                      *)
(***************************************************************************)
C23_EarlyExitFrame ==
    [][LineStep =>
        LET so == sales_orders[next_line]
            r == mrp_results'[Len(mrp_results')]
            need == so.OrdQty - Min2(so.OrdQty, Get(live_fg_approved, so.Part, 0))
            qc == Get(live_fg_qc, so.Part, 0)
        IN  /\ need <= 0 =>
                 /\ r.status = "ready-to-ship"
                 /\ live_fg_qc' = live_fg_qc
            /\ (need > 0 /\ need <= qc) => r.status = "pending-qc"
            /\ need <= qc =>
                 /\ r.components = <<>>
                 /\ live_component_inventory' = live_component_inventory
                 /\ allocation_log' = allocation_log]_vars

\* a line ended 'pending-qc' after an earlier line had been allocated components
C23_Witness ==
    /\ Len(mrp_results) = 2
    /\ mrp_results[1].status # "pending-qc"
    /\ TotalAllocated("C1") # R(0)
    /\ mrp_results[2].status = "pending-qc"
    /\ Get(allocation_log, "C1", <<>>) # <<>>

(***************************************************************************)
(* C24.  Demand lines are immutable input: a run leaves the demand list    *)
(* that the sales-demand source supplied as it was, in the order of its    *)
(* lines and in the fields of each line.                                   *)
(***************************************************************************)
C24_DemandUnchanged ==
    pc = "done" => sales_orders = supplied

(***************************************************************************)
(* C25 as stated: when a line is processed, the "already allocated to      *)
(* earlier orders" total reported for a component is the sum of the        *)
(* quantities allocated from that component to all demand lines processed  *)
(* earlier in the run, the listed entries are exactly those earlier        *)
(* allocations in ledger order, and the text is empty when no earlier line *)
(* was allocated any of that component.  Quantities are printed with two   *)
(* decimals.                                                               *)
(***************************************************************************)
\* the text for the ledger entries `earlier`
AllocatedText(earlier) ==
    IF earlier = <<>> THEN <<>>
    ELSE << <<"Total Allocated to Prior SOs: ",
              Fmt2(RSum([k \in 1..Len(earlier) |-> earlier[k].allocated]))>> >>
         \o [k \in 1..Len(earlier) |->
                <<"  - SO ", earlier[k].so, Fmt2(earlier[k].allocated)>>]

C25_AllocatedEarlierAsStated ==
    [][LineStep =>
        LET r == mrp_results'[Len(mrp_results')]
        IN  \A j \in 1..Len(r.components) :
               LET d == r.components[j]
               IN  d.shared_with_so =
                       AllocatedText(Get(allocation_log, d.part_number, <<>>))]_vars

(***************************************************************************)
(* C25, amended: the total and the entries cover the allocations of that   *)
(* component to the earlier lines of other sales orders (SO ids other than *)
(* the line's own), in ledger order; the text is empty when no earlier     *)
(* line of another sales order was allocated any of that component.        *)
(***************************************************************************)
C25_AllocatedToOtherOrders ==
    [][LineStep =>
        LET so == sales_orders[next_line]
            r == mrp_results'[Len(mrp_results')]
        IN  \A j \in 1..Len(r.components) :
               LET d == r.components[j]
               IN  d.shared_with_so =
                       AllocatedText(SelectSeq(Get(allocation_log, d.part_number, <<>>),
                                               LAMBDA a : a.so # so.SO))]_vars

\* the second line lists the two allocations the first line, of another sales
\* order, got from one component
C25_Witness ==
    /\ Len(mrp_results) = 2
    /\ mrp_results[1].sales_order.SO # mrp_results[2].sales_order.SO
    /\ Len(mrp_results[2].components) > 0
    /\ Len(mrp_results[2].components[1].shared_with_so) = 3

(***************************************************************************)
(* C27.  Finished-good priority: a demand line receives shippable > 0 only *)
(* if every line for the same part processed before it was fully shipped   *)
(* from approved stock (need = 0), and the shippable quantities of all     *)
(* lines of a part never add up to more than the part's initial FG         *)
(* approved quantity.  While the loop runs the results stand in processing *)
(* order.                                                                  *)
(***************************************************************************)
C27_FinishedGoodPriority ==
    /\ pc = "loop" =>
          \A j, k \in 1..Len(mrp_results) :
              (/\ j < k
               /\ mrp_results[j].sales_order.Part = mrp_results[k].sales_order.Part
               /\ mrp_results[k].shippable_qty > 0) => NeedOf(mrp_results[j]) = 0
    /\ \A p \in FGParts :
          ISum([k \in 1..Len(mrp_results) |->
                  IF mrp_results[k].sales_order.Part = p
                  THEN mrp_results[k].shippable_qty ELSE 0]) <= InitialFG(p).approved

\* the first line was shipped in full and the second got the rest of the stock,
\* less than it ordered
C27_Witness ==
    /\ pc = "loop"
    /\ Len(mrp_results) = 2
    /\ mrp_results[1].sales_order.Part = mrp_results[2].sales_order.Part
    /\ mrp_results[1].shippable_qty > 0
    /\ mrp_results[2].shippable_qty > 0
    /\ NeedOf(mrp_results[2]) > 0

(***************************************************************************)
(* C28.  For every result whose material status is 'ok' (producible >=     *)
(* production target), every component detail of that result has           *)
(* shortfall = 0, for every BOM shape, BOMs that list one component part   *)
(* on more than one line included.                                         *)
(***************************************************************************)
C28_OkHasNoShortfall ==
    \A k \in 1..Len(mrp_results) :
        LET r == mrp_results[k]
        IN  (Planned(r) /\ r.material_status = "ok") =>
                \A j \in 1..Len(r.components) : r.components[j].shortfall = R(0)

\* The same for results whose BOM lists every component part once.
C28_OkHasNoShortfallDistinctParts ==
    \A k \in 1..Len(mrp_results) :
        LET r == mrp_results[k]
        IN  (/\ Planned(r)
             /\ r.material_status = "ok"
             /\ \A i, j \in 1..Len(r.components) :
                   r.components[i].part_number = r.components[j].part_number => i = j)
            => \A j \in 1..Len(r.components) : r.components[j].shortfall = R(0)

(***************************************************************************)
(* C29 as stated: for every component part, the component quantity that    *)
(* the run's producible quantities require, the sum over all results and   *)
(* their BOM lines for that component of producible_qty * qty_per_unit,    *)
(* never exceeds the part's initial approved + pending-QC quantity.        *)
(***************************************************************************)
\* what result r requires of component c on the k-th line of its BOM
RequiredOn(r, k, c) ==
    LET bom == BomOf(r.sales_order.Part)
    IN  IF bom[k].Part = c /\ Qpu(bom[k])[1] > 0
        THEN RMul(r.producible_qty, Qpu(bom[k])) ELSE R(0)

RequiredBy(r, c) ==
    RSum([k \in 1..Len(BomOf(r.sales_order.Part)) |-> RequiredOn(r, k, c)])

C29_TotalRequiredAsStated ==
    \A c \in CompParts :
        RLe(RSum([k \in 1..Len(mrp_results) |-> RequiredBy(mrp_results[k], c)]),
            R(InitialRaw(c).approved + InitialRaw(c).pending_qc))

(***************************************************************************)
(* C29, amended: for every component part, the quantity that one result's  *)
(* producible quantity requires on one BOM line, producible_qty *          *)
(* qty_per_unit, never exceeds the part's initial approved + pending-QC    *)
(* quantity.                                                               *)
(***************************************************************************)
C29_RequiredPerBomLine ==
    \A c \in CompParts :
        \A k \in 1..Len(mrp_results) :
            \A j \in 1..Len(BomOf(mrp_results[k].sales_order.Part)) :
                RLe(RequiredOn(mrp_results[k], j, c),
                    R(InitialRaw(c).approved + InitialRaw(c).pending_qc))

\* two lines with one BOM line each require more of C1 than there is, each of
\* them counting the pending-QC stock
C29_Witness ==
    /\ Len(mrp_results) = 2
    /\ \A k \in 1..2 : /\ Len(BomOf(mrp_results[k].sales_order.Part)) = 1
                       /\ RLt(R(0), RequiredBy(mrp_results[k], "C1"))
    /\ InitialRaw("C1").pending_qc > 0
    /\ RLt(R(InitialRaw("C1").approved + InitialRaw("C1").pending_qc),
           RAdd(RequiredBy(mrp_results[1], "C1"), RequiredBy(mrp_results[2], "C1")))

(***************************************************************************)
(* C30.  When a part has BOM lines but every one of them has a             *)
(* non-positive qty_per_unit, a line that reaches production planning gets *)
(* producible = its full production target, material status 'ok' when      *)
(* nothing was shipped from stock, an empty component-detail list and no   *)
(* bottleneck parts, and no component pool or ledger changes.              *)
(***************************************************************************)
C30_NoUsableBomLine ==
    [][LineStep =>
        LET so == sales_orders[next_line]
            r == mrp_results'[Len(mrp_results')]
        IN  (Planned(r) /\ BomOf(so.Part) # <<>> /\ PositiveBom(so.Part) = <<>>) =>
              /\ r.producible_qty = R(NeedOf(r))
              /\ r.shippable_qty = 0 => r.material_status = "ok"
              /\ r.components = <<>>
              /\ r.bottleneck_parts = <<>>
              /\ live_component_inventory' = live_component_inventory
              /\ allocation_log' = allocation_log]_vars

\* after a line that was allocated components, a line whose BOM has only a
\* zero-quantity line is planned in full with nothing in stock
C30_Witness ==
    /\ Len(mrp_results) = 2
    /\ TotalAllocated("C1") # R(0)
    /\ \E k \in 1..2 :
          LET r == mrp_results[k]
          IN  /\ Planned(r)
              /\ BomOf(r.sales_order.Part) # <<>>
              /\ PositiveBom(r.sales_order.Part) = <<>>
              /\ r.shippable_qty = 0
              /\ r.producible_qty = R(3)
              /\ r.material_status = "ok"

(***************************************************************************)
(* C26.  Prefix dependence: the result of a demand line is a function only *)
(* of the snapshots and of the lines processed before it.  Of two runs on  *)
(* the same snapshots whose demand lists agree, in processing order, up to *)
(* a line, both give that line the same result, whatever lines were added, *)
(* removed or changed after it.                                            *)
(***************************************************************************)
\* the demand of the first call, in the order the first run processed it
FirstOrder == SortSalesOrders(erp.open_order_schedule)

\* the result the first run returned for the k-th line it processed
FirstResult(k) ==
    LET returned == StableSort([i \in 1..Len(FirstOrder) |-> i],
                               [i \in 1..Len(FirstOrder) |-> FirstOrder[i].SO])
    IN  prev_results[CHOOSE j \in 1..Len(returned) : returned[j] = k]

\* both runs processed the same k lines first
SamePrefix(orders, k) ==
    /\ k <= Len(FirstOrder)
    /\ k <= Len(orders)
    /\ \A i \in 1..k : BaseLine(orders[i]) = FirstOrder[i]

C26_PrefixDependence ==
    [][(LineStep /\ run = 2 /\ SamePrefix(sales_orders, next_line)) =>
          mrp_results'[Len(mrp_results')] = FirstResult(next_line)]_vars

\* the second run has processed the line both lists begin with, in need of
\* production, and its list goes on with another line than the first one's
C26_Witness ==
    /\ run = 2
    /\ Len(mrp_results) = 1
    /\ Planned(mrp_results[1])
    /\ SamePrefix(sales_orders, 1)
    /\ Len(FirstOrder) = 2
    /\ Len(sales_orders) = 2
    /\ BaseLine(sales_orders[2]) # FirstOrder[2]
    /\ sales_orders[2].Part = FirstOrder[1].Part

(***************************************************************************)
(* C21.  Isolation of invocations: when two invocations of                 *)
(* calculate_mrp_suggestions over the same snapshots are interleaved at    *)
(* demand-line boundaries, a step of one leaves the live pools and the     *)
(* allocation ledger of the other as they are, and each returns the        *)
(* results it returns when it runs alone.                                  *)
(***************************************************************************)
\* Lines 111-295 run without interruption on the lines k.. of `orders`, from
\* the pools and results `st`.  (Values are bound by set membership so that
\* each is computed once.)
RECURSIVE LoopAlone(_, _, _)
LoopAlone(orders, k, st) ==
    IF k > Len(orders) THEN st.mrp_results
    ELSE CHOOSE results \in
             { LoopAlone(orders, k + 1,
                         [live_fg_approved |-> out.fg_approved,
                          live_fg_qc |-> out.fg_qc,
                          live_component_inventory |-> out.live,
                          allocation_log |-> out.log,
                          mrp_results |-> Append(st.mrp_results, out.result)]) :
               out \in {ProcessOne(orders[k], st.live_fg_approved, st.live_fg_qc,
                                   st.live_component_inventory, st.allocation_log)} } :
             TRUE

\* what one invocation returns on the snapshots when no other is running
RunAlone ==
    CHOOSE results \in
        { SortResults(LoopAlone(orders, 1,
                                [live_fg_approved |-> seed.live_fg_approved,
                                 live_fg_qc |-> seed.live_fg_qc,
                                 live_component_inventory |->
                                     seed.live_component_inventory,
                                 allocation_log |-> seed.allocation_log,
                                 mrp_results |-> <<>>])) :
          orders \in {SortSalesOrders(erp.open_order_schedule)},
          seed \in {SeedPools(fg_inventory_map, erp.raw_material_inventory,
                              component_inventory)} } :
        TRUE

\* The returned results as a reader finds them: 'sales_order' refers to the
\* demand dict of the list `orders`, which holds what was last written on it.
Observed(results, orders) ==
    CHOOSE observed \in
        { [j \in 1..Len(results) |->
              [results[j] EXCEPT !.sales_order = orders[returned[j]]]] :
          returned \in {StableSort([i \in 1..Len(orders) |-> i],
                                   [i \in 1..Len(orders) |-> orders[i].SO])} } :
        TRUE

FirstPools ==
    <<live_fg_approved, live_fg_qc, live_component_inventory, allocation_log>>

ConcurrentPools ==
    <<concurrent.live_fg_approved, concurrent.live_fg_qc,
      concurrent.live_component_inventory, concurrent.allocation_log>>

C21_Isolation ==
    [][/\ (concurrent.pc # "idle" /\ <<concurrent.pc, concurrent.next_line>>' #
                                     <<concurrent.pc, concurrent.next_line>>)
              => /\ FirstPools' = FirstPools
                 /\ mrp_results' = mrp_results
       /\ (<<pc, next_line>>' # <<pc, next_line>>)
              => /\ ConcurrentPools' = ConcurrentPools
                 /\ concurrent.mrp_results' = concurrent.mrp_results
       /\ (pc # "idle" /\ "done" \in {pc', concurrent.pc'}) =>
             \A alone \in {RunAlone} :
                /\ pc' = "done" => Observed(mrp_results', sales_orders') = alone
                /\ concurrent.pc' = "done"
                      => Observed(concurrent.mrp_results',
                                  IF concurrent.fresh' THEN concurrent.sales_orders'
                                  ELSE sales_orders') = alone]_vars

\* both invocations have returned; the second started on the list object of the
\* first while the first was between two lines that compete for stock
C21_Witness ==
    /\ pc = "done"
    /\ concurrent.pc = "done"
    /\ ~concurrent.fresh
    /\ Len(mrp_results) = 2
    /\ mrp_results[1].sales_order.Part = mrp_results[2].sales_order.Part
    /\ \E k \in 1..2 : Planned(mrp_results[k]) /\ mrp_results[k].components # <<>>
    /\ live_fg_approved # SeedPools(fg_inventory_map, erp.raw_material_inventory,
                                    component_inventory).live_fg_approved

====
